---------------------------- MODULE Spec2Model ----------------------------
(***************************************************************************)
(* Model of the clinical-trial interest application: the eligibility       *)
(* evaluator and message composer of models.py and the registry client of  *)
(* clinical_trials_scraper.py.                                             *)
(*                                                                         *)
(* A Python str is a sequence of one-character strings, so that lower(),   *)
(* strip(), len(), `in` and the regular expressions are computed character *)
(* by character.  An optional str is a record [none, s]: none = TRUE is    *)
(* Python's None.                                                          *)
(***************************************************************************)
EXTENDS Integers, Sequences, FiniteSets, TLC

VARIABLES
    call,        \* arguments of the evaluator call made, or NoCall
    outcome,     \* what that call did: returned (is_eligible, reasons) or raised
    composed,    \* the get_eligibility_message call made and its result
    phase,       \* registry client: position in fetch_astrazeneca_cell_therapy_trials
    page_token,  \* registry client: page_token of the running strategy
    all_trials,  \* registry client: all_trials of fetch_astrazeneca_cell_therapy_trials
    trials,      \* registry client: trials of _fetch_collaborator_trials
    requests,    \* registry client: the GET requests sent so far, in order
    clock,       \* registry client: datetime.now() as a tick counter
    served,      \* registry client: studies the registry has sent in its answers
    responses,   \* registry client: what each request was answered, in order
    fetched,     \* registry client: the value returned to the caller, once done
    lookup,      \* registry client: a fetch_trial_details or search call, its outcome
    mail_pc,        \* email service: position in send_personalized_emails
    recipients,     \* email service: the recipients argument
    template_vars,  \* email service: keys of the template_vars argument
    next_recipient, \* email service: index of the recipient the loop takes next
    results,        \* email service: results
    success_count,  \* email service: success_count
    error_count,    \* email service: error_count
    server,         \* email service: state of the SMTP session
    connections,    \* email service: SMTP connections the call has opened
    attempted,      \* email service: the recipients tried and what came of it, in order
    request,        \* routes: the form data of the POST handled last
    reply,          \* routes: what the handler did with it
    submissions,    \* routes: the committed rows of UserSubmission
    api_request,    \* routes: the request POSTed to /api/check_eligibility
    api_reply,      \* routes: the answer api_check_eligibility gave to it
    located,        \* email service: a get_locality_from_zipcode call and its result
    admin_logged_in,      \* routes: session['admin_logged_in'], FALSE when absent
    admin_request,        \* routes: the admin request handled last
    admin_reply,          \* routes: what its handler answered
    selected_submissions, \* routes: the rows send_emails queried, as it left them
    bulk                  \* routes: the rows as queried and the result of each send

evars == << call, outcome, composed >>
fvars == << phase, page_token, all_trials, trials, requests, clock, served,
           responses, fetched, lookup >>
mvars == << mail_pc, recipients, template_vars, next_recipient, results,
           success_count, error_count, server, connections, attempted >>
rvars == << request, reply, submissions, api_request, api_reply >>
lvars == << located >>
avars == << admin_logged_in, admin_request, admin_reply, selected_submissions,
           bulk >>
vars == << evars, fvars, mvars, rvars, lvars, avars >>

---------------------------------------------------------------------------
(* Python str operations                                                   *)

LowerMap ==
    [A |-> "a", B |-> "b", C |-> "c", D |-> "d", E |-> "e", F |-> "f", G |-> "g",
     H |-> "h", I |-> "i", J |-> "j", K |-> "k", L |-> "l", M |-> "m", N |-> "n",
     O |-> "o", P |-> "p", Q |-> "q", R |-> "r", S |-> "s", T |-> "t", U |-> "u",
     V |-> "v", W |-> "w", X |-> "x", Y |-> "y", Z |-> "z"]

\* str.lower(): every cased character mapped to lower case, the rest kept
Lower(s) ==
    [i \in 1..Len(s) |-> IF s[i] \in DOMAIN LowerMap THEN LowerMap[s[i]] ELSE s[i]]

Whitespace == {" ", "\t", "\n", "\r"}

\* str.strip(): leading and trailing whitespace removed
Strip(s) ==
    LET keep == {i \in 1..Len(s) : s[i] \notin Whitespace}
    IN  IF keep = {} THEN << >>
        ELSE SubSeq(s, CHOOSE i \in keep : \A j \in keep : i <= j,
                       CHOOSE i \in keep : \A j \in keep : i >= j)

\* sub in s
Contains(s, sub) ==
    \E i \in 0..(Len(s) - Len(sub)) : SubSeq(s, i + 1, i + Len(sub)) = sub

Digits == {"0", "1", "2", "3", "4", "5", "6", "7", "8", "9"}

\* re.match(r'^\d{n}$', s): n digits, then the end of the string or a single
\* newline that ends the string ($ also matches just before a final newline)
MatchDigits(s, n) ==
    /\ Len(s) \in {n, n + 1}
    /\ \A i \in 1..n : s[i] \in Digits
    /\ Len(s) = n + 1 => s[n + 1] = "\n"

DigitChars == << "0", "1", "2", "3", "4", "5", "6", "7", "8", "9" >>

RECURSIVE NatToStr(_)
NatToStr(n) ==
    IF n < 10 THEN << DigitChars[n + 1] >>
    ELSE NatToStr(n \div 10) \o << DigitChars[(n % 10) + 1] >>

\* the {n} of an f-string for an int n
IntToStr(n) == IF n < 0 THEN << "-" >> \o NatToStr(-n) ELSE NatToStr(n)

RECURSIVE Join(_, _)
\* sep.join(list)
Join(sep, list) ==
    IF Len(list) = 0 THEN << >>
    ELSE IF Len(list) = 1 THEN list[1]
    ELSE list[1] \o sep \o Join(sep, Tail(list))

\* x in list
InList(x, list) == \E i \in 1..Len(list) : list[i] = x

None == [none |-> TRUE, s |-> << >>]
Str(s) == [none |-> FALSE, s |-> s]
\* truth value of an optional str: None and '' are falsy
Truthy(v) == ~v.none /\ Len(v.s) > 0

---------------------------------------------------------------------------
(* models.py: check_clinical_trial_eligibility                             *)

MinimumAge == 18
MaximumAge == 85
PincodeDigits == 6
MinHealthInfoLen == 10
MobileDigits == 10

TooYoungReason == << "P", "a", "r", "t", "i", "c", "i", "p", "a", "n", "t", "s", " ",
                     "m", "u", "s", "t", " ", "b", "e", " ", "a", "t", " ", "l", "e",
                     "a", "s", "t", " ", "1", "8", " ", "y", "e", "a", "r", "s", " ",
                     "o", "l", "d" >>
TooOldReason ==
    << "P", "a", "r", "t", "i", "c", "i", "p", "a", "n", "t", "s", " ", "m", "u", "s",
       "t", " ", "b", "e", " ", "8", "5", " ", "y", "e", "a", "r", "s", " ", "o", "l",
       "d", " ", "o", "r", " ", "y", "o", "u", "n", "g", "e", "r", " ", "f", "o", "r",
       " ", "s", "a", "f", "e", "t", "y", " ", "c", "o", "n", "s", "i", "d", "e", "r",
       "a", "t", "i", "o", "n", "s" >>
PincodeFormatReason == << "P", "i", "n", "c", "o", "d", "e", " ", "m", "u", "s", "t",
                          " ", "b", "e", " ", "a", " ", "v", "a", "l", "i", "d", " ",
                          "6", "-", "d", "i", "g", "i", "t", " ", "n", "u", "m", "b",
                          "e", "r" >>
AreaReasonPrefix ==
    << "C", "l", "i", "n", "i", "c", "a", "l", " ", "t", "r", "i", "a", "l", "s", " ",
       "a", "r", "e", " ", "n", "o", "t", " ", "c", "u", "r", "r", "e", "n", "t", "l",
       "y", " ", "a", "v", "a", "i", "l", "a", "b", "l", "e", " ", "i", "n", " ", "y",
       "o", "u", "r", " ", "a", "r", "e", "a", " ", "(", "p", "i", "n", "c", "o", "d",
       "e", ":", " " >>
AreaReason(pincode) == AreaReasonPrefix \o pincode \o << ")" >>
HealthInfoReason ==
    << "P", "l", "e", "a", "s", "e", " ", "p", "r", "o", "v", "i", "d", "e", " ", "d",
       "e", "t", "a", "i", "l", "e", "d", " ", "h", "e", "a", "l", "t", "h", " ", "i",
       "n", "f", "o", "r", "m", "a", "t", "i", "o", "n", " ", "(", "m", "i", "n", "i",
       "m", "u", "m", " ", "1", "0", " ", "c", "h", "a", "r", "a", "c", "t", "e", "r",
       "s", ")" >>
HealthStatusReason ==
    << "C", "u", "r", "r", "e", "n", "t", " ", "h", "e", "a", "l", "t", "h", " ", "s",
       "t", "a", "t", "u", "s", " ", "m", "a", "y", " ", "r", "e", "q", "u", "i", "r",
       "e", " ", "s", "p", "e", "c", "i", "a", "l", "i", "z", "e", "d", " ", "m", "e",
       "d", "i", "c", "a", "l", " ", "e", "v", "a", "l", "u", "a", "t", "i", "o", "n",
       " ", "b", "e", "f", "o", "r", "e", " ", "t", "r", "i", "a", "l", " ", "p", "a",
       "r", "t", "i", "c", "i", "p", "a", "t", "i", "o", "n" >>
MobileReason == << "P", "l", "e", "a", "s", "e", " ", "p", "r", "o", "v", "i", "d",
                   "e", " ", "a", " ", "v", "a", "l", "i", "d", " ", "1", "0", "-",
                   "d", "i", "g", "i", "t", " ", "m", "o", "b", "i", "l", "e", " ",
                   "n", "u", "m", "b", "e", "r" >>
MinAgeReasonPrefix == << "T", "h", "i", "s", " ", "s", "p", "e", "c", "i", "f", "i",
                         "c", " ", "t", "r", "i", "a", "l", " ", "r", "e", "q", "u",
                         "i", "r", "e", "s", " ", "p", "a", "r", "t", "i", "c", "i",
                         "p", "a", "n", "t", "s", " ", "t", "o", " ", "b", "e", " ",
                         "a", "t", " ", "l", "e", "a", "s", "t", " " >>
MinAgeReason(min_age) == MinAgeReasonPrefix \o IntToStr(min_age) \o << " ", "y", "e", "a", "r", "s", " ", "o", "l", "d" >>
MaxAgeReasonPrefix == << "T", "h", "i", "s", " ", "s", "p", "e", "c", "i", "f", "i",
                         "c", " ", "t", "r", "i", "a", "l", " ", "r", "e", "q", "u",
                         "i", "r", "e", "s", " ", "p", "a", "r", "t", "i", "c", "i",
                         "p", "a", "n", "t", "s", " ", "t", "o", " ", "b", "e", " " >>
MaxAgeReason(max_age) ==
    MaxAgeReasonPrefix \o IntToStr(max_age) \o << " ", "y", "e", "a", "r", "s", " ", "o", "l", "d",
                                 " ", "o", "r", " ", "y", "o", "u", "n", "g", "e",
                                 "r" >>
RequiredConditionsPrefix ==
    << "T", "h", "i", "s", " ", "t", "r", "i", "a", "l", " ", "r", "e", "q", "u", "i",
       "r", "e", "s", " ", "p", "a", "r", "t", "i", "c", "i", "p", "a", "n", "t", "s",
       " ", "w", "i", "t", "h", " ", "s", "p", "e", "c", "i", "f", "i", "c", " ", "c",
       "o", "n", "d", "i", "t", "i", "o", "n", "s", ":", " " >>
RequiredConditionsReason(required_conditions) ==
    RequiredConditionsPrefix \o Join(<< ",", " " >>, required_conditions)
MedicationReasonPrefix == << "C", "u", "r", "r", "e", "n", "t", " ", "m", "e", "d",
                             "i", "c", "a", "t", "i", "o", "n", " ", "(" >>
MedicationReason(med) ==
    MedicationReasonPrefix \o med \o << ")", " ", "m", "a", "y", " ", "i", "n", "t", "e",
                                 "r", "f", "e", "r", "e", " ", "w", "i", "t", "h",
                                 " ", "t", "r", "i", "a", "l", " ", "p", "a", "r",
                                 "t", "i", "c", "i", "p", "a", "t", "i", "o", "n" >>

allowed_pincode_prefixes ==
    << << "1", "1" >>, << "4", "0" >>, << "5", "6" >>, << "5", "7" >>, << "6", "0" >>, << "7", "0" >>, << "5", "0" >>, << "3", "8" >>, << "2", "0" >>, << "4", "1" >>, << "3", "0" >>,
       << "2", "2" >>, << "1", "2" >>, << "1", "4" >>, << "1", "6" >>, << "1", "5" >>, << "8", "0" >>, << "7", "5" >>, << "6", "4" >>, << "6", "2" >>, << "6", "8" >> >>

exclusionary_keywords ==
    << << "p", "r", "e", "g", "n", "a", "n", "t" >>,
       << "p", "r", "e", "g", "n", "a", "n", "c", "y" >>,
       << "b", "r", "e", "a", "s", "t", "f", "e", "e", "d", "i", "n", "g" >>,
       << "n", "u", "r", "s", "i", "n", "g" >>,
       << "s", "e", "v", "e", "r", "e", " ", "m", "e", "n", "t", "a", "l", " ", "i",
          "l", "l", "n", "e", "s", "s" >>,
       << "p", "s", "y", "c", "h", "o", "s", "i", "s" >>,
       << "s", "c", "h", "i", "z", "o", "p", "h", "r", "e", "n", "i", "a" >>,
       << "a", "c", "t", "i", "v", "e", " ", "c", "a", "n", "c", "e", "r" >>,
       << "c", "h", "e", "m", "o", "t", "h", "e", "r", "a", "p", "y" >>,
       << "r", "a", "d", "i", "a", "t", "i", "o", "n", " ", "t", "h", "e", "r", "a",
          "p", "y" >>,
       << "o", "r", "g", "a", "n", " ", "t", "r", "a", "n", "s", "p", "l", "a", "n",
          "t" >>,
       << "i", "m", "m", "u", "n", "o", "c", "o", "m", "p", "r", "o", "m", "i", "s",
          "e", "d" >>,
       << "H", "I", "V", " ", "p", "o", "s", "i", "t", "i", "v", "e" >>,
       << "s", "e", "v", "e", "r", "e", " ", "l", "i", "v", "e", "r", " ", "d", "i",
          "s", "e", "a", "s", "e" >>,
       << "k", "i", "d", "n", "e", "y", " ", "f", "a", "i", "l", "u", "r", "e" >>,
       << "d", "i", "a", "l", "y", "s", "i", "s" >>,
       << "r", "e", "c", "e", "n", "t", " ", "s", "u", "r", "g", "e", "r", "y" >>,
       << "h", "o", "s", "p", "i", "t", "a", "l", "i", "z", "e", "d", " ", "c", "u",
          "r", "r", "e", "n", "t", "l", "y" >> >>

AgeReasons_OffByOne(age) ==
    IF age <= MinimumAge THEN << TooYoungReason >>
    ELSE IF age >= MaximumAge THEN << TooOldReason >>
    ELSE << >>

\* lines 48-52
AgeReasons(age) ==
    IF age < MinimumAge THEN << TooYoungReason >>
    ELSE IF age > MaximumAge THEN << TooOldReason >>
    ELSE << >>

PincodeReasons_BothChecks(pincode) ==
    (IF ~MatchDigits(pincode, PincodeDigits) THEN << PincodeFormatReason >> ELSE << >>)
    \o (IF ~InList(SubSeq(pincode, 1, IF Len(pincode) < 2 THEN Len(pincode) ELSE 2),
                   allowed_pincode_prefixes)
        THEN << AreaReason(pincode) >> ELSE << >>)

\* lines 54-85; pincode is a str, so str(pincode) is pincode
PincodeReasons(pincode) ==
    IF ~MatchDigits(pincode, PincodeDigits) THEN << PincodeFormatReason >>
    ELSE LET pincode_prefix == SubSeq(pincode, 1, 2)
         IN  IF ~InList(pincode_prefix, allowed_pincode_prefixes)
             THEN << AreaReason(pincode) >>
             ELSE << >>

\* lines 87-89
HealthInfoReasons(health_info) ==
    IF ~Truthy(health_info) \/ Len(Strip(health_info.s)) < MinHealthInfoLen
    THEN << HealthInfoReason >>
    ELSE << >>

\* lines 91-105: one reason at the first keyword found, then break
ExclusionReasons(health_info_lower) ==
    IF \E k \in 1..Len(exclusionary_keywords) :
           Contains(health_info_lower, exclusionary_keywords[k])
    THEN << HealthStatusReason >>
    ELSE << >>

\* lines 107-109
MobileReasons(mobile) ==
    IF Truthy(mobile) /\ ~MatchDigits(mobile.s, MobileDigits)
    THEN << MobileReason >>
    ELSE << >>

MedicationReasons_FirstOnly(health_info_lower, excluded_meds) ==
    LET found == SelectSeq(excluded_meds,
                           LAMBDA med : Contains(health_info_lower, Lower(med)))
    IN  IF found = << >> THEN << >> ELSE << MedicationReason(found[1]) >>

\* lines 124-128: one reason per listed medication found, in list order
MedicationReasons(health_info_lower, excluded_meds) ==
    LET found == SelectSeq(excluded_meds,
                           LAMBDA med : Contains(health_info_lower, Lower(med)))
    IN  [i \in 1..Len(found) |-> MedicationReason(found[i])]

AdditionalReasons_UnlessBaseAge(age, health_info_lower, c) ==
    IF c.none \/ c.keys = {} THEN << >>
    ELSE (IF "min_age" \in c.keys /\ age < c.min_age /\ age >= MinimumAge
          THEN << MinAgeReason(c.min_age) >> ELSE << >>)
      \o (IF "max_age" \in c.keys /\ age > c.max_age /\ age <= MaximumAge
          THEN << MaxAgeReason(c.max_age) >> ELSE << >>)
      \o (IF "required_conditions" \in c.keys
             /\ ~\E i \in 1..Len(c.required_conditions) :
                    Contains(health_info_lower, Lower(c.required_conditions[i]))
          THEN << RequiredConditionsReason(c.required_conditions) >> ELSE << >>)
      \o (IF "excluded_medications" \in c.keys
          THEN MedicationReasons(health_info_lower, c.excluded_medications)
          ELSE << >>)

\* lines 111-128; additional_checks is None, or a dict whose keys are c.keys
AdditionalReasons(age, health_info_lower, c) ==
    IF c.none \/ c.keys = {} THEN << >>
    ELSE (IF "min_age" \in c.keys /\ age < c.min_age
          THEN << MinAgeReason(c.min_age) >> ELSE << >>)
      \o (IF "max_age" \in c.keys /\ age > c.max_age
          THEN << MaxAgeReason(c.max_age) >> ELSE << >>)
      \o (IF "required_conditions" \in c.keys
             /\ ~\E i \in 1..Len(c.required_conditions) :
                    Contains(health_info_lower, Lower(c.required_conditions[i]))
          THEN << RequiredConditionsReason(c.required_conditions) >> ELSE << >>)
      \o (IF "excluded_medications" \in c.keys
          THEN MedicationReasons(health_info_lower, c.excluded_medications)
          ELSE << >>)

\* lines 46-89: the reasons gathered before health_info.lower() is evaluated
ReasonsBeforeLower(age, pincode, health_info) ==
    AgeReasons(age) \o PincodeReasons(pincode) \o HealthInfoReasons(health_info)

ReasonsAfterLower_MobileFirst(age, health_info_lower, mobile, additional_checks) ==
    MobileReasons(mobile)
    \o ExclusionReasons(health_info_lower)
    \o AdditionalReasons(age, health_info_lower, additional_checks)

\* lines 102-128: the reasons gathered once health_info_lower is known
ReasonsAfterLower(age, health_info_lower, mobile, additional_checks) ==
    ExclusionReasons(health_info_lower)
    \o MobileReasons(mobile)
    \o AdditionalReasons(age, health_info_lower, additional_checks)

IsEligible_ReviewAllowed(reasons) ==
    \A i \in 1..Len(reasons) : reasons[i] = HealthStatusReason

\* lines 130-131
IsEligible(reasons) == Len(reasons) = 0

\* The whole call.  health_info.lower() on line 101 raises AttributeError when
\* health_info is None; reasons then holds what was gathered up to that line
\* and nothing is returned.
check_clinical_trial_eligibility(age, pincode, health_info, mobile, additional_checks) ==
    LET before == ReasonsBeforeLower(age, pincode, health_info)
    IN  IF health_info.none
        THEN [status |-> "raised", is_eligible |-> FALSE, reasons |-> before]
        ELSE LET health_info_lower == Lower(health_info.s)
                 reasons == before \o ReasonsAfterLower(age, health_info_lower,
                                                        mobile, additional_checks)
             IN  [status |-> "returned", is_eligible |-> IsEligible(reasons),
                  reasons |-> reasons]

---------------------------------------------------------------------------
(* models.py: get_eligibility_message                                      *)

SuccessMessage ==
    << "C", "o", "n", "g", "r", "a", "t", "u", "l", "a", "t", "i", "o", "n", "s", "!",
       " ", "Y", "o", "u", " ", "m", "e", "e", "t", " ", "o", "u", "r", " ", "i", "n",
       "i", "t", "i", "a", "l", " ", "e", "l", "i", "g", "i", "b", "i", "l", "i", "t",
       "y", " ", "c", "r", "i", "t", "e", "r", "i", "a", " ", "f", "o", "r", " ", "c",
       "l", "i", "n", "i", "c", "a", "l", " ", "t", "r", "i", "a", "l", " ", "p", "a",
       "r", "t", "i", "c", "i", "p", "a", "t", "i", "o", "n", ".", " ", "O", "u", "r",
       " ", "c", "l", "i", "n", "i", "c", "a", "l", " ", "r", "e", "s", "e", "a", "r",
       "c", "h", " ", "t", "e", "a", "m", " ", "w", "i", "l", "l", " ", "r", "e", "v",
       "i", "e", "w", " ", "y", "o", "u", "r", " ", "i", "n", "f", "o", "r", "m", "a",
       "t", "i", "o", "n", " ", "a", "n", "d", " ", "c", "o", "n", "t", "a", "c", "t",
       " ", "y", "o", "u", " ", "w", "i", "t", "h", "i", "n", " ", "5", "-", "7", " ",
       "b", "u", "s", "i", "n", "e", "s", "s", " ", "d", "a", "y", "s", " ", "t", "o",
       " ", "d", "i", "s", "c", "u", "s", "s", " ", "s", "p", "e", "c", "i", "f", "i",
       "c", " ", "t", "r", "i", "a", "l", "s", " ", "t", "h", "a", "t", " ", "m", "a",
       "y", " ", "b", "e", " ", "s", "u", "i", "t", "a", "b", "l", "e", " ", "f", "o",
       "r", " ", "y", "o", "u", "." >>
AreaSuffix ==
    << ".", " ", "W", "e", " ", "a", "r", "e", " ", "c", "o", "n", "t", "i", "n", "u",
       "o", "u", "s", "l", "y", " ", "e", "x", "p", "a", "n", "d", "i", "n", "g", " ",
       "o", "u", "r", " ", "t", "r", "i", "a", "l", " ", "l", "o", "c", "a", "t", "i",
       "o", "n", "s", ".", " ", "P", "l", "e", "a", "s", "e", " ", "c", "h", "e", "c",
       "k", " ", "b", "a", "c", "k", " ", "i", "n", " ", "t", "h", "e", " ", "f", "u",
       "t", "u", "r", "e", " ", "o", "r", " ", "c", "o", "n", "t", "a", "c", "t", " ",
       "u", "s", " ", "i", "f", " ", "y", "o", "u", "'", "r", "e", " ", "w", "i", "l",
       "l", "i", "n", "g", " ", "t", "o", " ", "t", "r", "a", "v", "e", "l", " ", "t",
       "o", " ", "a", " ", "n", "e", "a", "r", "b", "y", " ", "l", "o", "c", "a", "t",
       "i", "o", "n", "." >>
HealthSuffix ==
    << ".", " ", "T", "h", "i", "s", " ", "d", "o", "e", "s", "n", "'", "t", " ", "d",
       "i", "s", "q", "u", "a", "l", "i", "f", "y", " ", "y", "o", "u", " ", "f", "r",
       "o", "m", " ", "a", "l", "l", " ", "t", "r", "i", "a", "l", "s", ".", " ", "O",
       "u", "r", " ", "m", "e", "d", "i", "c", "a", "l", " ", "t", "e", "a", "m", " ",
       "w", "i", "l", "l", " ", "r", "e", "v", "i", "e", "w", " ", "y", "o", "u", "r",
       " ", "c", "a", "s", "e", " ", "i", "n", "d", "i", "v", "i", "d", "u", "a", "l",
       "l", "y", " ", "a", "n", "d", " ", "m", "a", "y", " ", "c", "o", "n", "t", "a",
       "c", "t", " ", "y", "o", "u", " ", "f", "o", "r", " ", "t", "r", "i", "a", "l",
       "s", " ", "w", "i", "t", "h", " ", "d", "i", "f", "f", "e", "r", "e", "n", "t",
       " ", "e", "l", "i", "g", "i", "b", "i", "l", "i", "t", "y", " ", "c", "r", "i",
       "t", "e", "r", "i", "a", "." >>
ErrorPrefix == << "W", "e", "'", "r", "e", " ", "u", "n", "a", "b", "l", "e", " ",
                  "t", "o", " ", "p", "r", "o", "c", "e", "e", "d", " ", "w", "i",
                  "t", "h", " ", "y", "o", "u", "r", " ", "a", "p", "p", "l", "i",
                  "c", "a", "t", "i", "o", "n", " ", "a", "t", " ", "t", "h", "i",
                  "s", " ", "t", "i", "m", "e", ".", " " >>
ErrorSuffix ==
    << ".", " ", "P", "l", "e", "a", "s", "e", " ", "c", "o", "n", "t", "a", "c", "t",
       " ", "o", "u", "r", " ", "c", "l", "i", "n", "i", "c", "a", "l", " ", "t", "r",
       "i", "a", "l", "s", " ", "i", "n", "f", "o", "r", "m", "a", "t", "i", "o", "n",
       " ", "c", "e", "n", "t", "e", "r", " ", "a", "t", " ", "1", "-", "8", "0", "0",
       "-", "T", "R", "I", "A", "L", "S", "-", "1", " ", "i", "f", " ", "y", "o", "u",
       " ", "h", "a", "v", "e", " ", "q", "u", "e", "s", "t", "i", "o", "n", "s", " ",
       "a", "b", "o", "u", "t", " ", "e", "l", "i", "g", "i", "b", "i", "l", "i", "t",
       "y", " ", "r", "e", "q", "u", "i", "r", "e", "m", "e", "n", "t", "s", "." >>

get_eligibility_message_ByReasons(is_eligible, reasons) ==
    IF Len(reasons) = 0
    THEN [message_type |-> "success", message |-> SuccessMessage]
    ELSE IF Len(reasons) = 1 /\ Contains(reasons[1], << "a", "r", "e", "a" >>)
    THEN [message_type |-> "warning", message |-> reasons[1] \o AreaSuffix]
    ELSE IF Len(reasons) = 1 /\ Contains(reasons[1], << "h", "e", "a", "l", "t", "h", " ", "s", "t", "a",
                                 "t", "u", "s" >>)
    THEN [message_type |-> "warning", message |-> reasons[1] \o HealthSuffix]
    ELSE [message_type |-> "error",
          message |-> ErrorPrefix \o Join(<< ";", " " >>, reasons) \o ErrorSuffix]

get_eligibility_message_ReviewIsError(is_eligible, reasons) ==
    IF is_eligible
    THEN [message_type |-> "success", message |-> SuccessMessage]
    ELSE IF Len(reasons) = 1 /\ Contains(reasons[1], << "a", "r", "e", "a" >>)
    THEN [message_type |-> "warning", message |-> reasons[1] \o AreaSuffix]
    ELSE [message_type |-> "error",
          message |-> ErrorPrefix \o Join(<< ";", " " >>, reasons) \o ErrorSuffix]

\* lines 148-177
get_eligibility_message(is_eligible, reasons) ==
    IF is_eligible
    THEN [message_type |-> "success", message |-> SuccessMessage]
    ELSE IF Len(reasons) = 1 /\ Contains(reasons[1], << "a", "r", "e", "a" >>)
    THEN [message_type |-> "warning", message |-> reasons[1] \o AreaSuffix]
    ELSE IF Len(reasons) = 1 /\ Contains(reasons[1], << "h", "e", "a", "l", "t", "h", " ", "s", "t", "a",
                                 "t", "u", "s" >>)
    THEN [message_type |-> "warning", message |-> reasons[1] \o HealthSuffix]
    ELSE [message_type |-> "error",
          message |-> ErrorPrefix \o Join(<< ";", " " >>, reasons) \o ErrorSuffix]

---------------------------------------------------------------------------
(* The calls made: inputs drawn from bounded sets                          *)

AgeMargin == 1       \* ages this far on each side of the two age limits
MaxMentions == 2     \* exclusionary keywords mentioned in one description

UpperMap ==
    [a |-> "A", b |-> "B", c |-> "C", d |-> "D", e |-> "E", f |-> "F", g |-> "G",
     h |-> "H", i |-> "I", j |-> "J", k |-> "K", l |-> "L", m |-> "M", n |-> "N",
     o |-> "O", p |-> "P", q |-> "Q", r |-> "R", s |-> "S", t |-> "T", u |-> "U",
     v |-> "V", w |-> "W", x |-> "X", y |-> "Y", z |-> "Z"]
Upper(s) ==
    [i \in 1..Len(s) |-> IF s[i] \in DOMAIN UpperMap THEN UpperMap[s[i]] ELSE s[i]]

Ages ==
    UNION {(t - AgeMargin)..(t + AgeMargin) : t \in {MinimumAge, MaximumAge}}
    \cup {16, 45}

Pincodes ==
    { << "5", "6", "0", "0", "0", "1" >>, << "9", "9", "9", "9", "9", "9" >>, << "9", "0", "2", "1", "0" >>, << "5", "6", "0", "0", "0", "a" >>, << "9", "9", "9", "9", "9", "9", "\n" >>, << >> }

Mobiles == { None, Str(<< >>), Str(<< "9", "8", "7", "6", "5", "4", "3", "2", "1", "0" >>), Str(<< "9", "8", "7", "6", "5" >>) }

Filler == << "N", "o", " ", "m", "a", "j", "o", "r", " ", "h", "e", "a", "l", "t",
             "h", " ", "i", "s", "s", "u", "e", "s", ".", " " >>

GridHealths ==
    { None,
      Str(<< >>),
      Str(<< "G", "o", "o", "d" >>),
      Str(<< " ", " ", " ", "G", "o", "o", "d", " ", " ", " ", " ", " ", " " >>),
      Str(<< "N", "o", " ", "m", "a", "j", "o", "r", " ", "h", "e", "a", "l", "t",
             "h", " ", "i", "s", "s", "u", "e", "s", ".", " ", "R", "e", "g", "u",
             "l", "a", "r", " ", "e", "x", "e", "r", "c", "i", "s", "e", "." >>),
      Str(<< "C", "u", "r", "r", "e", "n", "t", "l", "y", " ", "P", "R", "E", "G",
             "N", "A", "N", "T", " ", "a", "n", "d", " ", "t", "a", "k", "i", "n",
             "g", " ", "p", "r", "e", "n", "a", "t", "a", "l", " ", "v", "i", "t",
             "a", "m", "i", "n", "s", "." >>),
      Str(<< "A", "c", "t", "i", "v", "e", " ", "c", "a", "n", "c", "e", "r", " ",
             "t", "r", "e", "a", "t", "m", "e", "n", "t" >>),
      Str(<< "T", "y", "p", "e", " ", "2", " ", "d", "i", "a", "b", "e", "t", "e",
             "s", " ", "c", "o", "n", "t", "r", "o", "l", "l", "e", "d", " ", "w",
             "i", "t", "h", " ", "m", "e", "t", "f", "o", "r", "m", "i", "n", ".",
             " ", "H", "b", "A", "1", "c", ":", " ", "7", ".", "2", "%" >>),
      Str(<< "R", "e", "c", "e", "n", "t", " ", "s", "u", "r", "g", "e", "r", "y",
             ".", " ", "T", "a", "k", "e", "s", " ", "m", "e", "t", "f", "o", "r",
             "m", "i", "n", " ", "a", "n", "d", " ", "i", "n", "s", "u", "l", "i",
             "n", " ", "d", "a", "i", "l", "y" >>) }

Cased(s, how) ==
    IF how = "lower" THEN Lower(s) ELSE IF how = "upper" THEN Upper(s) ELSE s

\* descriptions that mention n consecutive terms of the keyword list, in the
\* case the list writes them, in lower case or in upper case
KeywordHealths ==
    { Str(Filler \o Join(<< " ", "a", "n", "d", " " >>,
            [j \in 1..n |-> Cased(exclusionary_keywords[i + j - 1], how)])) :
        <<i, n, how>> \in
            { t \in (1..Len(exclusionary_keywords)) \X (1..MaxMentions)
                    \X {"written", "lower", "upper"} :
                t[1] + t[2] - 1 <= Len(exclusionary_keywords) } }

Checks(keys, min_age, max_age, required_conditions, excluded_medications) ==
    [none |-> FALSE, keys |-> keys, min_age |-> min_age, max_age |-> max_age,
     required_conditions |-> required_conditions,
     excluded_medications |-> excluded_medications]

NoChecks == [Checks({}, 0, 0, << >>, << >>) EXCEPT !.none = TRUE]

\* eligibility_test.py, test case 7
DiabetesTrial ==
    Checks({"min_age", "max_age", "required_conditions", "excluded_medications"},
           25, 65, << << "d", "i", "a", "b", "e", "t", "e", "s" >>, << "t", "y", "p", "e", " ", "2" >>, << "b", "l", "o", "o", "d", " ", "s", "u", "g", "a",
                                 "r" >> >>, << << "i", "n", "s", "u", "l", "i", "n" >> >>)

AdditionalChecks ==
    { NoChecks,
      Checks({}, 0, 0, << >>, << >>),
      DiabetesTrial,
      Checks({"min_age", "max_age"}, 25, 65, << >>, << >>),
      Checks({"required_conditions"}, 0, 0, << << "a", "l", "o", "p", "e", "c", "i", "a", " ", "a",
                                 "r", "e", "a", "t", "a" >> >>, << >>),
      Checks({"excluded_medications"}, 0, 0, << >>, << << "I", "n", "s", "u", "l", "i", "n" >>, << "m", "e", "t", "f", "o", "r", "m", "i", "n" >> >>) }

Args(age, pincode, health_info, mobile, additional_checks) ==
    [made |-> TRUE, age |-> age, pincode |-> pincode, health_info |-> health_info,
     mobile |-> mobile, additional_checks |-> additional_checks]

NoCall == [Args(0, << >>, None, None, NoChecks) EXCEPT !.made = FALSE]

Inputs ==
    { Args(t[1], t[2], t[3], t[4], t[5]) :
        t \in Ages \X Pincodes \X GridHealths \X Mobiles \X AdditionalChecks }
    \cup { Args(45, << "5", "6", "0", "0", "0", "1" >>, h, Str(<< "9", "8", "7", "6", "5", "4", "3", "2", "1", "0" >>), NoChecks) : h \in KeywordHealths }

\* (is_eligible, reasons) pairs handed to get_eligibility_message directly
ReasonLists ==
    { << >>, << TooYoungReason >>, << AreaReason(<< "9", "9", "9", "9", "9", "9" >>) >>,
      << HealthStatusReason >>, << TooYoungReason, MobileReason >> }

NoOutcome == [status |-> "none", is_eligible |-> FALSE, reasons |-> << >>]
NotComposed ==
    [made |-> FALSE, is_eligible |-> FALSE, reasons |-> << >>,
     message_type |-> "", message |-> << >>]

Composed(is_eligible, reasons) ==
    LET m == get_eligibility_message(is_eligible, reasons)
    IN  [made |-> TRUE, is_eligible |-> is_eligible, reasons |-> reasons,
         message_type |-> m.message_type, message |-> m.message]

\* no fetch_trial_details or search_cell_therapy_trials call made yet
NoLookup == [op |-> "none", kind |-> "none", status |-> "none", result |-> << >>]

RegistryIdle ==
    /\ phase = "idle"
    /\ page_token = None
    /\ all_trials = << >>
    /\ trials = << >>
    /\ requests = << >>
    /\ clock = 0
    /\ served = 0
    /\ responses = << >>
    /\ fetched = << >>
    /\ lookup = NoLookup

\* no send_personalized_emails call made yet
MailIdle ==
    /\ mail_pc = "idle"
    /\ recipients = << >>
    /\ template_vars = {}
    /\ next_recipient = 0
    /\ results = << >>
    /\ success_count = 0
    /\ error_count = 0
    /\ server = "none"
    /\ connections = 0
    /\ attempted = << >>

\* no form posted yet, and an empty table
NoRequest ==
    [posted |-> FALSE, name |-> << >>, email |-> << >>, mobile |-> << >>,
     zipcode |-> << >>, age |-> 0, health_info |-> << >>]

NoReply == [kind |-> "none", message_type |-> "", is_eligible |-> FALSE]

\* no request to /api/check_eligibility yet
NoApiRequest ==
    [kind |-> "none", fields |-> {}, age |-> 0, zipcode |-> << >>,
     health_info |-> None, mobile |-> None, additional_checks |-> NoChecks]

NoApiReply ==
    [status |-> 0, evaluated |-> FALSE, is_eligible |-> FALSE, reasons |-> << >>,
     message_type |-> "", message |-> << >>]

RoutesIdle ==
    /\ request = NoRequest
    /\ reply = NoReply
    /\ submissions = << >>
    /\ api_request = NoApiRequest
    /\ api_reply = NoApiReply

\* no get_locality_from_zipcode call made yet
NotLocated == [called |-> FALSE, zipcode |-> << >>, region |-> "", recommendation |-> ""]

\* a session without the admin flag, and no admin request made
NoAdminRequest == [route |-> "none", username |-> "", password |-> "", posted |-> FALSE]

AdminIdle ==
    /\ admin_logged_in = FALSE
    /\ admin_request = NoAdminRequest
    /\ admin_reply = "none"
    /\ selected_submissions = << >>
    /\ bulk = [queried |-> << >>, statuses |-> << >>]

Init ==
    /\ call = NoCall
    /\ outcome = NoOutcome
    /\ composed = NotComposed
    /\ RegistryIdle
    /\ MailIdle
    /\ RoutesIdle
    /\ located = NotLocated
    /\ AdminIdle

\* a call of check_clinical_trial_eligibility
Evaluate ==
    /\ ~call.made /\ ~composed.made
    /\ \E a \in Inputs :
          /\ call' = a
          /\ outcome' = check_clinical_trial_eligibility(
                            a.age, a.pincode, a.health_info, a.mobile,
                            a.additional_checks)
    /\ UNCHANGED << composed, fvars, mvars, rvars, lvars, avars >>

\* the caller hands the pair returned to get_eligibility_message
Compose ==
    /\ outcome.status = "returned" /\ ~composed.made
    /\ composed' = Composed(outcome.is_eligible, outcome.reasons)
    /\ UNCHANGED << call, outcome, fvars, mvars, rvars, lvars, avars >>

\* a call of get_eligibility_message with a pair of the caller's own making
MessageCall ==
    /\ ~call.made /\ ~composed.made
    /\ \E is_eligible \in BOOLEAN, reasons \in ReasonLists :
          composed' = Composed(is_eligible, reasons)
    /\ UNCHANGED << call, outcome, fvars, mvars, rvars, lvars, avars >>

EligibilityNext == Evaluate \/ Compose \/ MessageCall

EligibilitySpec == Init /\ [][EligibilityNext]_vars

---------------------------------------------------------------------------
(* Properties of the evaluator and the composer                            *)

StartsWith(s, prefix) ==
    Len(prefix) <= Len(s) /\ SubSeq(s, 1, Len(prefix)) = prefix

Count(x, list) == Cardinality({i \in 1..Len(list) : list[i] = x})

\* the rule a reason text comes from, as a position in the rule order
ReasonRank(r) ==
    IF r \in {TooYoungReason, TooOldReason} THEN 1
    ELSE IF r = PincodeFormatReason \/ StartsWith(r, AreaReasonPrefix) THEN 2
    ELSE IF r = HealthInfoReason THEN 3
    ELSE IF r = HealthStatusReason THEN 4
    ELSE IF r = MobileReason THEN 5
    ELSE IF StartsWith(r, MinAgeReasonPrefix) THEN 6
    ELSE IF StartsWith(r, MaxAgeReasonPrefix) THEN 7
    ELSE IF StartsWith(r, RequiredConditionsPrefix) THEN 8
    ELSE IF StartsWith(r, MedicationReasonPrefix) THEN 9
    ELSE 0

\* the description contains, in any letter case, a term of the keyword list
MentionsKeyword(health_info) ==
    \E k \in 1..Len(exclusionary_keywords) :
        Contains(Lower(health_info.s), Lower(exclusionary_keywords[k]))

Returned == outcome.status = "returned"

\* C1: whenever check_clinical_trial_eligibility returns, is_eligible is True
\* if and only if the returned reasons list is empty.
C1_EligibleIffNoReasons ==
    Returned => (outcome.is_eligible <=> outcome.reasons = << >>)

C1_Witness ==
    /\ Returned /\ outcome.is_eligible
    /\ call.age = 45 /\ call.additional_checks = DiabetesTrial

\* C2: check_clinical_trial_eligibility never raises: every call made, also one
\* with an empty or None health description, returns a (boolean, reasons) pair.
C2_NeverRaises == call.made => outcome.status = "returned"

\* C3: an age below 18 gets the too-young reason, an age above 85 the too-old
\* reason, an age of 18..85 neither, and never both.
C3_AgeReasons ==
    call.made =>
        /\ call.age < 18 => InList(TooYoungReason, outcome.reasons)
        /\ call.age > 85 => InList(TooOldReason, outcome.reasons)
        /\ call.age \in 18..85 =>
              /\ ~InList(TooYoungReason, outcome.reasons)
              /\ ~InList(TooOldReason, outcome.reasons)
        /\ ~(InList(TooYoungReason, outcome.reasons)
             /\ InList(TooOldReason, outcome.reasons))

C3_Witness ==
    /\ Returned /\ call.age = 17 /\ InList(TooYoungReason, outcome.reasons)
    /\ ~InList(TooOldReason, outcome.reasons)

\* C4: a postal code that fails the 6-digit format check gets the format reason
\* and no area-not-served reason; the area-not-served reason appears only for a
\* code that passes the format check and whose first two digits are not in the
\* allow-list; at most one of the two postal reasons appears.
C4_PostalReasonsExclusive ==
    call.made =>
        LET area == {i \in 1..Len(outcome.reasons) :
                        StartsWith(outcome.reasons[i], AreaReasonPrefix)}
            format == {i \in 1..Len(outcome.reasons) :
                          outcome.reasons[i] = PincodeFormatReason}
            wellFormed ==
                /\ Len(call.pincode) \in {6, 7}
                /\ \A i \in 1..6 : call.pincode[i] \in Digits
                /\ Len(call.pincode) = 7 => call.pincode[7] = "\n"
        IN  /\ ~wellFormed => format # {} /\ area = {}
            /\ area # {} =>
                  /\ wellFormed
                  /\ \A i \in 1..Len(allowed_pincode_prefixes) :
                        allowed_pincode_prefixes[i]
                            # << call.pincode[1], call.pincode[2] >>
            /\ Cardinality(area) + Cardinality(format) <= 1

C4_Witness ==
    /\ Returned /\ call.pincode = << "9", "0", "2", "1", "0" >>
    /\ InList(PincodeFormatReason, outcome.reasons)

\* C5: a health description that contains, in any letter case, a term of the
\* exclusionary-keyword list (each term of the list) gets exactly one
\* specialized-medical-evaluation reason however many terms match, and a
\* description that contains none of the terms gets none.
C5_OneReviewReasonPerMention ==
    call.made =>
        Count(HealthStatusReason, outcome.reasons)
            = IF MentionsKeyword(call.health_info) THEN 1 ELSE 0

\* C6: every rule is evaluated, none is skipped because of another: for every
\* call made, the reason of each rule (age, postal code, health-description
\* length, exclusionary keyword, phone) is present exactly when that rule's own
\* predicate is violated.
C6_EveryRuleEvaluated ==
    call.made =>
        LET rs == outcome.reasons
            pinOk == MatchDigits(call.pincode, 6)
        IN  /\ InList(TooYoungReason, rs) <=> call.age < 18
            /\ InList(TooOldReason, rs) <=> call.age > 85
            /\ InList(PincodeFormatReason, rs) <=> ~pinOk
            /\ InList(AreaReason(call.pincode), rs) <=>
                  pinOk /\ ~InList(SubSeq(call.pincode, 1, 2), allowed_pincode_prefixes)
            /\ InList(HealthInfoReason, rs) <=>
                  \/ ~Truthy(call.health_info)
                  \/ Len(Strip(call.health_info.s)) < 10
            /\ InList(HealthStatusReason, rs) <=> MentionsKeyword(call.health_info)
            /\ InList(MobileReason, rs) <=>
                  Truthy(call.mobile) /\ ~MatchDigits(call.mobile.s, 10)

\* C6, for the calls that return and with the keyword rule's predicate as the
\* code tests it (the listed term, as written, found in the lower-cased text):
\* each rule's reason is present exactly when its predicate is violated.
C6_EveryRuleEvaluatedWhenReturned ==
    Returned =>
        LET rs == outcome.reasons
            pinOk == MatchDigits(call.pincode, 6)
        IN  /\ InList(TooYoungReason, rs) <=> call.age < 18
            /\ InList(TooOldReason, rs) <=> call.age > 85
            /\ InList(PincodeFormatReason, rs) <=> ~pinOk
            /\ InList(AreaReason(call.pincode), rs) <=>
                  pinOk /\ ~InList(SubSeq(call.pincode, 1, 2), allowed_pincode_prefixes)
            /\ InList(HealthInfoReason, rs) <=>
                  \/ ~Truthy(call.health_info)
                  \/ Len(Strip(call.health_info.s)) < 10
            /\ InList(HealthStatusReason, rs) <=>
                  \E k \in 1..Len(exclusionary_keywords) :
                      Contains(Lower(call.health_info.s), exclusionary_keywords[k])
            /\ InList(MobileReason, rs) <=>
                  Truthy(call.mobile) /\ ~MatchDigits(call.mobile.s, 10)

\* eligibility_test.py, test case 6: the age, area, keyword and phone rules
\* violated at once give all four reasons
C6_FourReasonsTogether ==
    /\ Returned
    /\ call.age = 16 /\ call.pincode = << "9", "9", "9", "9", "9", "9" >>
    /\ call.health_info = Str(<< "A", "c", "t", "i", "v", "e", " ", "c", "a", "n",
                                 "c", "e", "r", " ", "t", "r", "e", "a", "t", "m",
                                 "e", "n", "t" >>)
    /\ call.mobile = Str(<< "9", "8", "7", "6", "5" >>) /\ call.additional_checks = NoChecks
    /\ outcome.reasons = << TooYoungReason, AreaReason(<< "9", "9", "9", "9", "9", "9" >>),
                            HealthStatusReason, MobileReason >>

\* C7: the reasons follow the fixed rule order: age, postal code,
\* health-description length, exclusionary keyword, phone, then the extra
\* criteria (minimum age, maximum age, required conditions, excluded
\* medications); only the excluded-medication rule gives several reasons.
C7_ReasonsInRuleOrder ==
    call.made =>
        /\ \A i \in 1..Len(outcome.reasons) : ReasonRank(outcome.reasons[i]) > 0
        /\ \A i, j \in 1..Len(outcome.reasons) :
              i < j =>
                  \/ ReasonRank(outcome.reasons[i]) < ReasonRank(outcome.reasons[j])
                  \/ /\ ReasonRank(outcome.reasons[i]) = 9
                     /\ ReasonRank(outcome.reasons[j]) = 9

C7_Witness ==
    /\ Returned
    /\ Len(outcome.reasons) >= 6
    /\ InList(MobileReason, outcome.reasons)
    /\ InList(HealthStatusReason, outcome.reasons)
    /\ \E i \in 1..Len(outcome.reasons) : ReasonRank(outcome.reasons[i]) = 9

\* C8 as claimed: for every pair (is_eligible, reasons) passed to
\* get_eligibility_message the tier is 'success' if and only if the reasons
\* list is empty.
C8_SuccessIffNoReasons ==
    composed.made =>
        (composed.message_type = "success" <=> composed.reasons = << >>)

\* C8 as amended: for every pair passed, the tier is 'success' if and only if
\* is_eligible is True; for a pair returned by
\* check_clinical_trial_eligibility that is if and only if the reasons list is
\* empty.
C8_SuccessIffEligible ==
    composed.made =>
        /\ composed.message_type = "success" <=> composed.is_eligible
        /\ call.made =>
              (composed.message_type = "success" <=> composed.reasons = << >>)

C8_Witness ==
    \/ /\ composed.made /\ call.made /\ composed.reasons = << >>
       /\ composed.message_type = "success"
    \/ /\ composed.made /\ ~call.made /\ composed.is_eligible
       /\ composed.reasons # << >> /\ composed.message_type = "success"

\* C9: for a non-empty reasons list returned by the evaluator, the tier is
\* 'warning' only when the list holds exactly one reason and that reason is
\* the area-not-served reason or the specialized-health-review reason; every
\* other non-empty list gets 'error'.
C9_WarningOnlyForAreaOrReview ==
    (composed.made /\ call.made /\ composed.reasons # << >>) =>
        LET special ==
                /\ Len(composed.reasons) = 1
                /\ \/ StartsWith(composed.reasons[1], AreaReasonPrefix)
                   \/ composed.reasons[1] = HealthStatusReason
        IN  composed.message_type = IF special THEN "warning" ELSE "error"

\* the call made carries additional_checks that is a non-empty dict with key
CheckGiven(key) ==
    /\ ~call.additional_checks.none
    /\ key \in call.additional_checks.keys

\* C18: in a call that returns, the trial's min_age reason is in the list
\* exactly when min_age is given and age is below it, and the max_age reason
\* exactly when max_age is given and age is above it, each once, whatever the
\* base 18/85 rule says; a base age reason and a trial age reason can stand in
\* the same list.
C18_TrialAgeIndependentOfBase ==
    Returned =>
        LET c == call.additional_checks
        IN  /\ Count(MinAgeReason(c.min_age), outcome.reasons) =
                  (IF CheckGiven("min_age") /\ call.age < c.min_age THEN 1 ELSE 0)
            /\ Count(MaxAgeReason(c.max_age), outcome.reasons) =
                  (IF CheckGiven("max_age") /\ call.age > c.max_age THEN 1 ELSE 0)
            /\ \A i \in 1..Len(outcome.reasons) :
                  ReasonRank(outcome.reasons[i]) = 6 =>
                      outcome.reasons[i] = MinAgeReason(c.min_age)
            /\ \A i \in 1..Len(outcome.reasons) :
                  ReasonRank(outcome.reasons[i]) = 7 =>
                      outcome.reasons[i] = MaxAgeReason(c.max_age)

C18_Witness ==
    /\ Returned
    /\ call.age < MinimumAge
    /\ InList(TooYoungReason, outcome.reasons)
    /\ InList(MinAgeReason(call.additional_checks.min_age), outcome.reasons)

\* the positions of the listed medications that occur in the health text
MatchedMeds ==
    { i \in 1..Len(call.additional_checks.excluded_medications) :
        Contains(Lower(call.health_info.s),
                 Lower(call.additional_checks.excluded_medications[i])) }

\* the medication reasons of the returned list, in their order
MedicationPart ==
    SelectSeq(outcome.reasons, LAMBDA r : StartsWith(r, MedicationReasonPrefix))

\* C19: in a call that returns with extra criteria, the required-conditions
\* reason is in the list exactly when required conditions are given and none
\* of them occurs in the health text, case ignored; and the medication reasons
\* of the list are those of the listed medications that occur in the health
\* text, case ignored, one for each, in the order listed.
C19_ConditionsAndMedications ==
    Returned =>
        LET c == call.additional_checks
            health_lower == Lower(call.health_info.s)
        IN  /\ Count(RequiredConditionsReason(c.required_conditions), outcome.reasons) =
                  (IF /\ CheckGiven("required_conditions")
                      /\ \A i \in 1..Len(c.required_conditions) :
                            ~Contains(health_lower, Lower(c.required_conditions[i]))
                   THEN 1 ELSE 0)
            /\ IF CheckGiven("excluded_medications")
               THEN /\ Len(MedicationPart) = Cardinality(MatchedMeds)
                    /\ \A k \in 1..Len(MedicationPart) :
                          \E i \in MatchedMeds :
                              /\ Cardinality({j \in MatchedMeds : j < i}) = k - 1
                              /\ MedicationPart[k] =
                                    MedicationReason(c.excluded_medications[i])
               ELSE MedicationPart = << >>

C19_Witness ==
    /\ Returned
    /\ CheckGiven("excluded_medications")
    /\ Cardinality(MatchedMeds) = 2
    /\ Len(MedicationPart) = 2
    /\ MedicationPart[1] # MedicationPart[2]

\* the call returned the review reason and nothing else
OnlyReview == Returned /\ outcome.reasons = << HealthStatusReason >>

---------------------------------------------------------------------------
(* clinical_trials_scraper.py: the registry client                         *)

MaxStudies == 2      \* studies the registry sends during one fetch, all pages

\* A study of a response: a JSON object with its identification and sponsor
\* modules, or (wellformed = FALSE) a value that is no object, such as null.
Study(nctId, lead, collaborators) ==
    [wellformed |-> TRUE, nctId |-> nctId, lead |-> lead,
     collaborators |-> collaborators]

Malformed == [Study(None, << >>, << >>) EXCEPT !.wellformed = FALSE]

Studies ==
    { Study(Str(<< "N", "C", "T", "1" >>), << "A", "s", "t", "r", "a", "Z", "e", "n", "e", "c", "a" >>, << >>),
      Study(Str(<< "N", "C", "T", "2" >>), << "O", "t", "h", "e", "r", " ", "P", "h", "a", "r", "m",
                              "a" >>, << << "A", "S", "T", "R", "A", "Z", "E", "N", "E", "C",
                                 "A", " ", "A", "B" >> >>),
      Study(Str(<< "N", "C", "T", "3" >>), << "O", "t", "h", "e", "r", " ", "P", "h", "a", "r", "m",
                              "a" >>, << >>),
      Study(None, << "A", "s", "t", "r", "a", "Z", "e", "n", "e", "c", "a" >>, << >>),
      Malformed }

Tokens == { None, Str(<< >>), Str(<< "t", "o", "k", "A" >>), Str(<< "t", "o", "k", "B" >>) }

RECURSIVE SeqsUpTo(_, _)
\* the sequences over S of length at most n
SeqsUpTo(S, n) ==
    IF n = 0 THEN { << >> }
    ELSE LET shorter == SeqsUpTo(S, n - 1)
         IN  shorter \cup { Append(q, x) : q \in shorter, x \in S }

\* What the registry may answer to one request: a failure of the HTTP exchange
\* (session.get or raise_for_status raises RequestException), a body that does
\* not parse into an object (json() or data.get raises), or a page.
Responses(room) ==
    { [kind |-> k, studies |-> << >>, nextPageToken |-> None] : k \in {"http", "parse"} }
    \cup { [kind |-> "page", studies |-> q, nextPageToken |-> t] :
              q \in SeqsUpTo(Studies, room), t \in Tokens }

\* lines 127-143; called on a study that is an object
is_astrazeneca_involved(study) ==
    \/ Contains(Lower(study.lead), << "a", "s", "t", "r", "a", "z", "e", "n", "e", "c",
                                 "a" >>)
    \/ \E i \in 1..Len(study.collaborators) :
           Contains(Lower(study.collaborators[i]), << "a", "s", "t", "r", "a", "z", "e", "n", "e", "c",
                                 "a" >>)

\* lines 155-229, the fields the client reads again; now is datetime.now()
process_trial_data(study, now) ==
    [nct_id |-> study.nctId, lead_sponsor |-> study.lead,
     collaborators |-> study.collaborators, last_scraped |-> now,
     raw_data |-> study]

RECURSIVE DirectLoop(_, _)
\* lines 56-59: a study that is no object makes _process_trial_data return
\* None (its own except clause), and the loop skips it
DirectLoop(studies, now) ==
    IF studies = << >> THEN << >>
    ELSE IF ~Head(studies).wellformed THEN DirectLoop(Tail(studies), now)
    ELSE << process_trial_data(Head(studies), now + 1) >>
         \o DirectLoop(Tail(studies), now + 1)

RECURSIVE CollabLoop(_, _)
\* lines 112-116: _is_astrazeneca_involved runs outside any inner try, so a
\* study that is no object raises here; raised = TRUE then, and trials holds
\* what was appended before it
CollabLoop(studies, now) ==
    IF studies = << >> THEN [raised |-> FALSE, trials |-> << >>]
    ELSE IF ~Head(studies).wellformed THEN [raised |-> TRUE, trials |-> << >>]
    ELSE IF ~is_astrazeneca_involved(Head(studies))
    THEN CollabLoop(Tail(studies), now)
    ELSE LET rest == CollabLoop(Tail(studies), now + 1)
         IN  [raised |-> rest.raised,
              trials |-> << process_trial_data(Head(studies), now + 1) >>
                         \o rest.trials]

Keeps_Idless(nct_id, seen_nct_ids) == nct_id \notin seen_nct_ids

\* line 262: the test that keeps a trial
Keeps(nct_id, seen_nct_ids) == Truthy(nct_id) /\ nct_id \notin seen_nct_ids

RECURSIVE RemoveLoop(_, _)
RemoveLoop(trial_list, seen_nct_ids) ==
    IF trial_list = << >> THEN << >>
    ELSE LET trial == Head(trial_list)
         IN  IF Keeps(trial.nct_id, seen_nct_ids)
             THEN << trial >>
                  \o RemoveLoop(Tail(trial_list), seen_nct_ids \cup {trial.nct_id})
             ELSE RemoveLoop(Tail(trial_list), seen_nct_ids)

Reverse(s) == [i \in 1..Len(s) |-> s[Len(s) + 1 - i]]

remove_duplicates_KeepLast(trial_list) ==
    Reverse(RemoveLoop(Reverse(trial_list), {}))

\* lines 255-266: _remove_duplicates
remove_duplicates(trial_list) == RemoveLoop(trial_list, {})

\* what the client reads of an answer to decide how to go on: whether the
\* exchange and the parse succeeded, whether studies is empty (line 53),
\* whether some study is no object (which raises on line 113 only), and the
\* nextPageToken (line 62)
Answer(resp) ==
    [kind |-> resp.kind, empty |-> resp.studies = << >>,
     unreadable |-> \E i \in 1..Len(resp.studies) : ~resp.studies[i].wellformed,
     nextPageToken |-> resp.nextPageToken]

Request_NoToken(strategy) == [strategy |-> strategy, pageToken |-> None]

\* lines 34-44 and 93-101: the parameters of one GET; pageToken is added only
\* when page_token is truthy
Request(strategy) ==
    [strategy |-> strategy,
     pageToken |-> IF Truthy(page_token) THEN page_token ELSE None]

\* line 19: fetch_astrazeneca_cell_therapy_trials is called (lines 29-30)
StartFetch ==
    /\ phase = "idle" /\ lookup.op = "none"
    /\ phase' = "direct"
    /\ all_trials' = << >>
    /\ page_token' = None
    /\ UNCHANGED << trials, requests, clock, served, responses, fetched, lookup,
                    evars, mvars, rvars, lvars, avars >>

\* lines 33-73: one round of the direct-sponsor loop.  A failure returns [] at
\* once; an empty page or a page without continuation token leaves the loop and
\* enters _fetch_collaborator_trials (lines 87-88).
DirectPage ==
    /\ phase = "direct"
    /\ requests' = Append(requests, Request("direct"))
    /\ \E resp \in Responses(MaxStudies - served) :
          /\ served' = served + Len(resp.studies)
          /\ responses' = Append(responses, Answer(resp))
          /\ IF resp.kind # "page"
             THEN /\ phase' = "done"
                  /\ fetched' = << >>
                  /\ UNCHANGED << all_trials, page_token, trials, clock >>
             ELSE IF resp.studies = << >>
             THEN /\ phase' = "collab"
                  /\ page_token' = None
                  /\ trials' = << >>
                  /\ UNCHANGED << all_trials, clock, fetched >>
             ELSE LET processed == DirectLoop(resp.studies, clock)
                  IN  /\ all_trials' = all_trials \o processed
                      /\ clock' = clock + Len(processed)
                      /\ IF Truthy(resp.nextPageToken)
                         THEN /\ page_token' = resp.nextPageToken
                              /\ UNCHANGED << phase, trials >>
                         ELSE /\ phase' = "collab"
                              /\ page_token' = None
                              /\ trials' = << >>
                      /\ UNCHANGED fetched
    /\ UNCHANGED << lookup, evars, mvars, rvars, lvars, avars >>

Merge_NoReturn(collaborator_trials) ==
    /\ all_trials' = all_trials \o collaborator_trials
    /\ fetched' = remove_duplicates(all_trials \o collaborator_trials)
    /\ phase' = "merging"

\* lines 76-83, run when _fetch_collaborator_trials returns collaborator_trials
Merge(collaborator_trials) ==
    /\ all_trials' = all_trials \o collaborator_trials
    /\ fetched' = remove_duplicates(all_trials \o collaborator_trials)
    /\ phase' = "done"

\* lines 91-125: one round of the collaborator loop.  An exception is logged
\* and the function returns the trials gathered so far (line 125); so does an
\* empty page or a page without continuation token.
CollabPage ==
    /\ phase = "collab"
    /\ requests' = Append(requests, Request("collab"))
    /\ \E resp \in Responses(MaxStudies - served) :
          /\ served' = served + Len(resp.studies)
          /\ responses' = Append(responses, Answer(resp))
          /\ IF resp.kind # "page" \/ resp.studies = << >>
             THEN /\ Merge(trials)
                  /\ UNCHANGED << trials, page_token, clock >>
             ELSE LET loop == CollabLoop(resp.studies, clock)
                  IN  /\ trials' = trials \o loop.trials
                      /\ clock' = clock + Len(loop.trials)
                      /\ IF loop.raised \/ ~Truthy(resp.nextPageToken)
                         THEN /\ Merge(trials \o loop.trials)
                              /\ page_token' =
                                    IF loop.raised THEN page_token
                                    ELSE resp.nextPageToken
                         ELSE /\ page_token' = resp.nextPageToken
                              /\ UNCHANGED << phase, all_trials, fetched >>
    /\ UNCHANGED << lookup, evars, mvars, rvars, lvars, avars >>

\* What the registry may answer to the request for one study (line 279): a
\* failure of the HTTP exchange; a body that is no JSON ("json": json()
\* raises); a JSON body that is no object, such as a list ("shape": data.get
\* raises AttributeError); or an object, whose protocolSection is absent or
\* empty (absent = TRUE) or is the value given, an object or not.
DetailResponses ==
    { [kind |-> k, absent |-> TRUE, protocolSection |-> Malformed] :
          k \in {"http", "json", "shape"} }
    \cup { [kind |-> "page", absent |-> TRUE, protocolSection |-> Malformed] }
    \cup { [kind |-> "page", absent |-> FALSE, protocolSection |-> s] : s \in Studies }

\* the outcome of a call: a value returned, or an exception that leaves it
Returns(op, kind, result) ==
    [op |-> op, kind |-> kind, status |-> "returned", result |-> result]

Raises(op, kind) ==
    [op |-> op, kind |-> kind, status |-> "raised", result |-> << >>]

\* lines 268-294: fetch_trial_details; the value None is the empty result,
\* a record returned is the result of length one.  Only RequestException is
\* caught (line 292).  The exception of json() is a RequestException in the
\* requests releases that define requests.exceptions.JSONDecodeError and a
\* plain ValueError in the earlier ones, so either outcome is possible; the
\* AttributeError of data.get on a body that is no object is never caught.
\* A protocolSection that is no object makes _process_trial_data return None.
FetchTrialDetails ==
    /\ phase = "idle" /\ lookup.op = "none"
    /\ \E resp \in DetailResponses :
          \/ /\ resp.kind = "http"
             /\ lookup' = Returns("details", resp.kind, << >>)
             /\ UNCHANGED clock
          \/ /\ resp.kind = "json"
             /\ \/ lookup' = Returns("details", resp.kind, << >>)
                \/ lookup' = Raises("details", resp.kind)
             /\ UNCHANGED clock
          \/ /\ resp.kind = "shape"
             /\ lookup' = Raises("details", resp.kind)
             /\ UNCHANGED clock
          \/ /\ resp.kind = "page"
             /\ IF resp.absent \/ ~resp.protocolSection.wellformed
                THEN /\ lookup' = Returns("details", resp.kind, << >>)
                     /\ UNCHANGED clock
                ELSE /\ lookup' = Returns("details", resp.kind,
                            << process_trial_data(resp.protocolSection, clock + 1) >>)
                     /\ clock' = clock + 1
    /\ UNCHANGED << phase, page_token, all_trials, trials, requests, served,
                    responses, fetched, evars, mvars, rvars, lvars, avars >>

\* lines 296-332: search_cell_therapy_trials; every exception is caught
\* (line 330) and [] returned
SearchTrials ==
    /\ phase = "idle" /\ lookup.op = "none"
    /\ \E resp \in Responses(MaxStudies) :
          IF resp.kind # "page"
          THEN /\ lookup' = Returns("search", resp.kind, << >>)
               /\ UNCHANGED clock
          ELSE LET processed == DirectLoop(resp.studies, clock)
               IN  /\ lookup' = Returns("search", resp.kind, processed)
                   /\ clock' = clock + Len(processed)
    /\ UNCHANGED << phase, page_token, all_trials, trials, requests, served,
                    responses, fetched, evars, mvars, rvars, lvars, avars >>

RegistryNext ==
    StartFetch \/ DirectPage \/ CollabPage \/ FetchTrialDetails \/ SearchTrials

RegistrySpec == Init /\ [][RegistryNext]_vars

\* The loops are straight-line synchronous code: once the fetch is called the
\* next request is sent, and the assumption on the registry is that each
\* request is answered.  The registry has MaxStudies studies to give, so it
\* comes to answer with an empty page, a page without token or a failure.
RegistryLiveSpec ==
    Init /\ [][RegistryNext]_vars /\ WF_vars(DirectPage) /\ WF_vars(CollabPage)

---------------------------------------------------------------------------
(* Properties of the registry client                                       *)

\* the records of all_trials that the direct-sponsor strategy gathered
DirectPart == SubSeq(all_trials, 1, Len(all_trials) - Len(trials))

\* fetch_astrazeneca_cell_therapy_trials has returned its de-duplicated list
Merged == phase = "done" /\ requests # << >> /\ requests[Len(requests)].strategy = "collab"

\* C10: in the list returned by fetch_astrazeneca_cell_therapy_trials every
\* identifier occurs exactly once, and when both strategies gave a record with
\* the same identifier the record kept is the direct-sponsor strategy's first.
C10_EachIdOnceFirstKept ==
    /\ phase = "done" =>
          \A i, j \in 1..Len(fetched) :
              fetched[i].nct_id = fetched[j].nct_id => i = j
    /\ Merged =>
        /\ \A i \in 1..Len(all_trials) :
              Truthy(all_trials[i].nct_id) =>
                  \E j \in 1..Len(fetched) : fetched[j].nct_id = all_trials[i].nct_id
        /\ \A i \in 1..Len(DirectPart), j \in 1..Len(trials) :
              (Truthy(DirectPart[i].nct_id) /\ DirectPart[i].nct_id = trials[j].nct_id) =>
                  /\ ~InList(trials[j], fetched)
                  /\ \E k \in 1..Len(DirectPart) :
                        /\ DirectPart[k].nct_id = DirectPart[i].nct_id
                        /\ \A l \in 1..(k - 1) : DirectPart[l].nct_id # DirectPart[i].nct_id
                        /\ InList(DirectPart[k], fetched)

C10_Witness ==
    /\ Merged
    /\ \E i \in 1..Len(DirectPart), j \in 1..Len(trials) :
          /\ Truthy(DirectPart[i].nct_id)
          /\ DirectPart[i].nct_id = trials[j].nct_id
          /\ InList(DirectPart[i], fetched)
          /\ ~InList(trials[j], fetched)


\* request i is the first one its strategy sends
FirstOfStrategy(i) == i = 1 \/ requests[i - 1].strategy # requests[i].strategy

\* an answer after which the loop goes round again: a page that parsed, with
\* studies (line 53) and a truthy nextPageToken (lines 62-64)
Continues(answer) ==
    answer.kind = "page" /\ ~answer.empty /\ Truthy(answer.nextPageToken)

\* C11: in each fetch strategy the first request carries no page token; every
\* later request carries exactly the nextPageToken of the answer just before
\* it, and that answer was a non-empty page with a token, so no request
\* follows a failure, an empty page or a page without token; every request got
\* one answer and none is sent again; the direct strategy sends nothing once
\* the collaborator strategy has begun.
C11_TokenDiscipline ==
    /\ Len(responses) = Len(requests)
    /\ \A i \in 1..Len(requests) :
          IF FirstOfStrategy(i)
          THEN /\ requests[i].pageToken = None
               /\ i > 1 => requests[i].strategy = "collab"
          ELSE /\ Continues(responses[i - 1])
               /\ requests[i].pageToken = responses[i - 1].nextPageToken

C11_Witness ==
    /\ phase = "done"
    /\ \A s \in {"direct", "collab"} :
          \E i \in 2..Len(requests) :
              /\ requests[i].strategy = s
              /\ ~FirstOfStrategy(i)
              /\ Truthy(requests[i].pageToken)

\* the fetch is over and the last request sent met an HTTP or parsing failure
FailedIn(strategy) ==
    /\ phase = "done"
    /\ requests # << >>
    /\ requests[Len(requests)].strategy = strategy
    /\ responses[Len(responses)].kind # "page"

\* C12: a strategy that meets an HTTP or parsing failure on any page gives no
\* record to the result: after a failure of the direct strategy the result is
\* empty, and after a failure of the collaborator strategy the result is what
\* the direct strategy's records alone give.
C12_FailedStrategyContributesNothing ==
    /\ FailedIn("direct") => fetched = << >>
    /\ FailedIn("collab") => fetched = remove_duplicates(DirectPart)

\* C13: no operation of the registry client lets a failure of the external
\* call reach its caller: fetch_trial_details and search_cell_therapy_trials
\* return None or [] when the exchange fails or the body cannot be parsed or
\* read, and so does fetch_astrazeneca_cell_therapy_trials when its first
\* strategy fails.
C13_NoFailureSurfaces ==
    /\ lookup.status # "raised"
    /\ lookup.kind \in {"http", "json", "shape", "parse"} => lookup.result = << >>
    /\ FailedIn("direct") => fetched = << >>

\* the collaborator strategy was run during the fetch
CollaboratorRan == \E i \in 1..Len(requests) : requests[i].strategy = "collab"

\* C21: a failure in one strategy empties that strategy's part only.  The
\* fetch does not return before the collaborator strategy has run, also when
\* the direct strategy failed, and the result is then the de-duplicated
\* collaborator records; when the collaborator strategy fails, the result is
\* the de-duplicated records of the direct strategy.
C21_FailureIsolated ==
    /\ phase = "done" =>
          /\ CollaboratorRan
          /\ FailedIn("direct") => fetched = remove_duplicates(trials)
    /\ FailedIn("collab") => fetched = remove_duplicates(DirectPart)

\* fetch_astrazeneca_cell_therapy_trials has been called and has not returned
Fetching == phase \in {"direct", "collab"}

\* C22: a call of fetch_astrazeneca_cell_therapy_trials returns, given that
\* every request is answered and that the registry, in each strategy, comes to
\* answer with an empty page, a page without continuation token or a failure
\* (a study the collaborator loop cannot read is one); and nothing but such an
\* answer ends a strategy's loop: the client counts no pages.
C22_FetchReturns ==
    /\ Fetching ~> phase = "done"
    /\ [][(Fetching /\ phase' # phase) =>
             LET last == responses'[Len(responses')]
             IN  ~Continues(last) \/ (phase = "collab" /\ last.unreadable)]_vars

C22_Witness ==
    /\ phase = "done"
    /\ served = MaxStudies
    /\ CollaboratorRan
    /\ \E i \in 1..Len(responses) : Continues(responses[i])


MaxTrials == 3       \* records in the list handed to _remove_duplicates

\* records as process_trial_data builds them: two with the same identifier
\* and different sponsors, one with another identifier, one whose nct_id is
\* None and one whose nct_id is ''
TrialRecords ==
    { process_trial_data(study, 1) :
        study \in { Study(Str(<< "N", "C", "T", "1" >>), << "A", "s", "t", "r", "a", "Z", "e", "n", "e", "c",
                                 "a" >>, << >>),
                    Study(Str(<< "N", "C", "T", "1" >>), << "O", "t", "h", "e", "r", " ", "P", "h", "a", "r",
                                 "m", "a" >>, << << "A", "S", "T", "R", "A", "Z", "E", "N", "E", "C",
                                 "A", " ", "A", "B" >> >>),
                    Study(Str(<< "N", "C", "T", "2" >>), << "A", "s", "t", "r", "a", "Z", "e", "n", "e", "c",
                                 "a" >>, << >>),
                    Study(None, << "A", "s", "t", "r", "a", "Z", "e", "n", "e", "c",
                                 "a" >>, << >>),
                    Study(Str(<< >>), << "A", "s", "t", "r", "a", "Z", "e", "n", "e", "c",
                                 "a" >>, << >>) } }

\* lines 255-266: one call of _remove_duplicates; all_trials is its
\* argument, as on line 79, and fetched the list it returns
RemoveDuplicates ==
    /\ \E trial_list \in SeqsUpTo(TrialRecords, MaxTrials) :
          /\ all_trials' = trial_list
          /\ fetched' = remove_duplicates(trial_list)
    /\ UNCHANGED << phase, page_token, trials, requests, clock, served,
                    responses, lookup, evars, mvars, rvars, lvars, avars >>

DedupSpec == Init /\ [][RemoveDuplicates]_vars

\* the place in all_trials of the first record with this identifier
FirstPlace(nct_id) ==
    CHOOSE i \in 1..Len(all_trials) :
        /\ all_trials[i].nct_id = nct_id
        /\ \A j \in 1..(i - 1) : all_trials[j].nct_id # nct_id

\* C27: every record of the list _remove_duplicates returns has a non-empty
\* identifier (a record whose nct_id is None or '' is dropped), is the
\* unaltered first record of the input with that identifier, and the records
\* stand in the order of those first occurrences
C27_IdentifiedSubList ==
    /\ \A i \in 1..Len(fetched) :
          /\ Truthy(fetched[i].nct_id)
          /\ \E k \in 1..Len(all_trials) : all_trials[k].nct_id = fetched[i].nct_id
          /\ fetched[i] = all_trials[FirstPlace(fetched[i].nct_id)]
    /\ \A i, j \in 1..Len(fetched) :
          i < j => FirstPlace(fetched[i].nct_id) < FirstPlace(fetched[j].nct_id)

\* the input holds a record whose nct_id is None and one whose nct_id is '',
\* both dropped, and a record that is kept
C27_Witness ==
    /\ Len(fetched) = 1
    /\ \E i, j \in 1..Len(all_trials) :
          /\ all_trials[i].nct_id = None
          /\ all_trials[j].nct_id = Str(<< >>)

---------------------------------------------------------------------------
(* email_service.py: EmailService.send_personalized_emails                 *)

MaxRecipients == 3   \* recipients of one batch

Emails == { "john@example.com", "jane@example.com" }

\* the keys a recipient dictionary has: those of the usage example
\* (email_usage_examples.py line 32) or those send_bulk_emails builds
KeySets ==
    { {"email", "name", "pincode"},
      {"email", "name", "pincode", "locality", "trial_recommendation", "age"} }

Recipients == { [email |-> e, keys |-> k] : e \in Emails, k \in KeySets }

\* the placeholders of subject and template (email_usage_examples.py 36-46)
Placeholders == { "name", "pincode", "locality" }

\* the keys of template_vars; None and {} both give no key (line 61)
TemplateVarKeys == { {}, {"locality"} }

CredentialsMessage == "SMTP credentials not configured"
SentMessage == "Email sent successfully"
TemplateMessage == "Missing template variable"
SendMessage == "Failed to send email"
ConnectionMessage == "SMTP connection error"

Result(email, status, message) ==
    [email |-> email, status |-> status, message |-> message]

\* lines 41-46: the list built when the credentials are missing
CredentialResults(recipient_list) ==
    [i \in 1..Len(recipient_list) |->
        Result(recipient_list[i].email, "error", CredentialsMessage)]

\* lines 61-66: str.format raises KeyError for a placeholder that is no key
\* of personal_vars
FormatRaisesKeyError(global_keys, recipient) ==
    \E p \in Placeholders : p \notin (global_keys \cup recipient.keys)

RECURSIVE MarkFailed(_, _)
\* lines 118-126: the outer handler appends an error result for every
\* recipient whose email no result carries yet
MarkFailed(recipient_list, result_list) ==
    IF recipient_list = << >> THEN result_list
    ELSE LET recipient == Head(recipient_list)
             recorded == \E i \in 1..Len(result_list) :
                             result_list[i].email = recipient.email
         IN  MarkFailed(Tail(recipient_list),
                        IF recorded THEN result_list
                        ELSE Append(result_list,
                                    Result(recipient.email, "error", ConnectionMessage)))

\* what lines 54-56 may come to: smtplib.SMTP raises and no connection
\* exists; starttls or login raises on the connection opened on line 54; the
\* server hangs up during either, and smtplib closes the connection as it
\* raises; or all three go through
Sessions == { "refused", "starttls_failed", "login_failed", "dropped", "ready" }

\* the state of the connection when lines 54-56 are left: the handler of
\* lines 114-126 calls neither quit nor close
ServerAfter(session) ==
    CASE session = "refused" -> "none"
      [] session \in { "starttls_failed", "login_failed" } -> "unclosed"
      [] session = "dropped" -> "dead"
      [] session = "ready" -> "open"

\* lines 27-56: the call, up to the start of the loop.  has_credentials is
\* what __init__ read from the environment (lines 19-20).
StartBatch ==
    /\ mail_pc = "idle"
    /\ \E recipient_list \in SeqsUpTo(Recipients, MaxRecipients),
          global_keys \in TemplateVarKeys,
          has_credentials \in BOOLEAN, session \in Sessions :
          /\ recipients' = recipient_list
          /\ template_vars' = global_keys
          /\ IF ~has_credentials
             THEN /\ results' = CredentialResults(recipient_list)
                  /\ error_count' = Len(recipient_list)
                  /\ mail_pc' = "returned"
                  /\ server' = "none"
                  /\ connections' = 0
                  /\ UNCHANGED next_recipient
             ELSE IF session # "ready"
             THEN /\ results' = MarkFailed(recipient_list, << >>)
                  /\ error_count' = Len(MarkFailed(recipient_list, << >>))
                  /\ mail_pc' = "returned"
                  /\ server' = ServerAfter(session)
                  /\ connections' = IF session = "refused" THEN 0 ELSE 1
                  /\ UNCHANGED next_recipient
             ELSE /\ results' = << >>
                  /\ error_count' = 0
                  /\ mail_pc' = "loop"
                  /\ server' = ServerAfter(session)
                  /\ connections' = 1
                  /\ next_recipient' = 1
    /\ success_count' = 0
    /\ attempted' = << >>
    /\ UNCHANGED << evars, fvars, rvars, lvars, avars >>

RecordError_Dropped(recipient, message) ==
    UNCHANGED << results, error_count, success_count >>

\* lines 91-109: either inner handler
RecordError(recipient, message) ==
    /\ results' = Append(results, Result(recipient.email, "error", message))
    /\ error_count' = error_count + 1
    /\ UNCHANGED success_count

\* the entry of attempted for the recipient the loop is at
Attempt(what) == [recipient |-> next_recipient, outcome |-> what]

SendOne_Broken_GiveUp(recipient) ==
    /\ attempted' = attempted
    /\ mail_pc' = "returned"
    /\ UNCHANGED << results, error_count, success_count, next_recipient, server >>

\* lines 80, 101-109: server.send_message on a session that broke earlier
\* raises SMTPServerDisconnected at once; the inner handler records it and
\* the loop goes on
SendOne_Broken(recipient) ==
    /\ attempted' = Append(attempted, Attempt("closed"))
    /\ RecordError(recipient, SendMessage)
    /\ next_recipient' = next_recipient + 1
    /\ UNCHANGED << server, mail_pc >>

\* lines 80-109: server.send_message on a session that is open.  The message
\* goes out; or the server refuses it and the session stays open; or the
\* session breaks (SMTPServerDisconnected) and smtplib closes it.
SendOne_Open(recipient) ==
    /\ \/ /\ attempted' = Append(attempted, Attempt("sent"))
          /\ results' = Append(results, Result(recipient.email, "success", SentMessage))
          /\ success_count' = success_count + 1
          /\ UNCHANGED << error_count, server >>
       \/ /\ attempted' = Append(attempted, Attempt("refused"))
          /\ RecordError(recipient, SendMessage)
          /\ UNCHANGED server
       \/ /\ attempted' = Append(attempted, Attempt("disconnected"))
          /\ RecordError(recipient, SendMessage)
          /\ server' = "dead"
    /\ next_recipient' = next_recipient + 1
    /\ UNCHANGED mail_pc

\* lines 59-109: one round of the loop
SendOne ==
    /\ mail_pc = "loop"
    /\ next_recipient <= Len(recipients)
    /\ LET recipient == recipients[next_recipient]
       IN  IF FormatRaisesKeyError(template_vars, recipient)
           THEN /\ attempted' = Append(attempted, Attempt("template"))
                /\ RecordError(recipient, TemplateMessage)
                /\ next_recipient' = next_recipient + 1
                /\ UNCHANGED << server, mail_pc >>
           ELSE IF server = "dead"
           THEN SendOne_Broken(recipient)
           ELSE SendOne_Open(recipient)
    /\ UNCHANGED << recipients, template_vars, connections, evars, fvars, rvars,
                    lvars, avars >>

\* lines 111-132: server.quit() after the loop, and the return.  quit raises
\* on a broken session, and may break an open one; the outer handler then
\* runs over the recipients.
Quit ==
    /\ mail_pc = "loop"
    /\ next_recipient > Len(recipients)
    /\ \/ /\ server = "open"
          /\ server' = "closed"
          /\ UNCHANGED << results, error_count >>
       \/ /\ server' = "dead"
          /\ results' = MarkFailed(recipients, results)
          /\ error_count' = error_count + Len(MarkFailed(recipients, results))
                               - Len(results)
    /\ mail_pc' = "returned"
    /\ UNCHANGED << recipients, template_vars, next_recipient, success_count,
                    attempted, connections, evars, fvars, rvars, lvars, avars >>

EmailNext == StartBatch \/ SendOne \/ Quit

EmailSpec == Init /\ [][EmailNext]_vars

---------------------------------------------------------------------------
(* Properties of the email service                                         *)

\* the loop of send_personalized_emails was entered (line 58)
Looped == next_recipient > 0

\* index of the recipient whose send broke the SMTP session, 0 if none did
BrokenAt ==
    IF \E k \in 1..Len(attempted) : attempted[k].outcome = "disconnected"
    THEN CHOOSE k \in 1..Len(attempted) : attempted[k].outcome = "disconnected"
    ELSE 0

\* the k-th recipient was tried k-th, and the k-th result is that recipient's
OnePerRecipient ==
    /\ Len(results) = Len(attempted)
    /\ \A k \in 1..Len(attempted) :
          /\ attempted[k].recipient = k
          /\ results[k].email = recipients[k].email

\* C14: when the SMTP session breaks during the send to some recipient of the
\* batch, every recipient after that one is recorded with status 'error' by
\* the time the call returns, each recipient is tried once and in order, and
\* a result once recorded is never changed or removed.
C14_BreakMarksTheRest ==
    /\ [](BrokenAt > 0 =>
            /\ OnePerRecipient
            /\ \A k \in BrokenAt..Len(results) : results[k].status = "error"
            /\ mail_pc = "returned" => Len(results) = Len(recipients))
    /\ [][\A k \in 1..Len(results) :
             k <= Len(results') /\ results'[k] = results[k]]_vars

C14_Witness ==
    /\ mail_pc = "returned"
    /\ BrokenAt = 2
    /\ Len(recipients) = MaxRecipients
    /\ results[1].status = "success"
    /\ ~FormatRaisesKeyError(template_vars, recipients[3])
    /\ results[3].status = "error"

\* C15: a missing template variable or a failed send is recorded as an 'error'
\* result of the recipient it concerns, and the loop goes on: results and
\* recipients correspond one to one in order, a result is 'success' exactly
\* when the message went out, and when the call returns every recipient of
\* the list has been tried.
C15_FailureRecordedBatchGoesOn ==
    Looped =>
        /\ OnePerRecipient
        /\ \A k \in 1..Len(attempted) :
              /\ attempted[k].outcome = "sent" <=> results[k].status = "success"
              /\ attempted[k].outcome # "sent" <=> results[k].status = "error"
              /\ attempted[k].outcome = "template" <=> results[k].message = TemplateMessage
        /\ mail_pc = "returned" => Len(attempted) = Len(recipients)

C15_Witness ==
    /\ mail_pc = "returned"
    /\ Len(attempted) = MaxRecipients
    /\ attempted[1].outcome = "template"
    /\ attempted[2].outcome = "refused"
    /\ attempted[3].outcome = "sent"

\* the number of results with a status
StatusCount(status) ==
    Cardinality({ k \in 1..Len(results) : results[k].status = status })

\* C24: when send_personalized_emails has returned, results holds one entry
\* for each recipient of the list, in order, also when recipients share an
\* email address; success_count is the number of 'success' entries,
\* error_count the number of 'error' entries, and the two add up to the
\* number of recipients.
C24_OneResultPerRecipient ==
    mail_pc = "returned" =>
        /\ Len(results) = Len(recipients)
        /\ \A k \in 1..Len(results) : k <= Len(recipients) =>
              results[k].email = recipients[k].email
        /\ success_count = StatusCount("success")
        /\ error_count = StatusCount("error")
        /\ success_count + error_count = Len(recipients)

\* the call returned on lines 41-46, the credentials not being configured
NoCredentials ==
    /\ mail_pc = "returned"
    /\ recipients # << >>
    /\ \A k \in 1..Len(results) : results[k].message = CredentialsMessage

\* C30: a call of send_personalized_emails opens at most one SMTP connection;
\* it opens none when the credentials are not configured, every recipient
\* being recorded as 'error' then; and when the call has returned, the
\* connection it opened is closed, whichever way the call went
C30_ConnectionClosedOnReturn ==
    /\ connections <= 1
    /\ NoCredentials =>
          /\ connections = 0
          /\ Len(results) = Len(recipients)
          /\ \A k \in 1..Len(results) : results[k].status = "error"
    /\ mail_pc = "returned" =>
          IF connections = 0 THEN server = "none" ELSE server \in { "closed", "dead" }

---------------------------------------------------------------------------
(* routes.py and forms.py: the interest form                               *)

MaxRows == 2         \* rows the UserSubmission table may come to hold

NameMin == 2
NameMax == 100
FormMobileDigits == 10
FormZipDigits == 5
FormAgeMin == 16
FormAgeMax == 120
FormHealthMin == 10
FormHealthMax == 500

\* wtforms DataRequired on a text field: the data is not empty and not blank
DataRequired(s) == s # << >> /\ Strip(s) # << >>

\* wtforms Length(min, max)
LengthBetween(s, min, max) == Len(s) >= min /\ Len(s) <= max

\* wtforms Email, as far as the inputs tell apart: something, an @, something
ValidEmail(s) == \E i \in 2..(Len(s) - 1) : s[i] = "@"

\* forms.py lines 6-37: InterestForm.validate; Regexp is re.match, and the
\* IntegerField fails DataRequired for the value 0
ValidInterestForm(form) ==
    /\ DataRequired(form.name) /\ LengthBetween(form.name, NameMin, NameMax)
    /\ DataRequired(form.email) /\ ValidEmail(form.email)
    /\ DataRequired(form.mobile) /\ MatchDigits(form.mobile, FormMobileDigits)
    /\ DataRequired(form.zipcode) /\ MatchDigits(form.zipcode, FormZipDigits)
    /\ form.age # 0 /\ form.age >= FormAgeMin /\ form.age <= FormAgeMax
    /\ DataRequired(form.health_info)
    /\ LengthBetween(form.health_info, FormHealthMin, FormHealthMax)

\* models.py line 30: the parameters of check_clinical_trial_eligibility,
\* and those without a default
EvaluatorParameters == { "age", "pincode", "health_info", "mobile", "additional_checks" }
EvaluatorRequired == { "age", "pincode", "health_info" }

\* routes.py lines 24-29: the keywords interest_form passes
InterestFormKeywords == { "age", "zipcode", "health_info", "mobile" }

\* a Python call with keyword arguments binds when every keyword names a
\* parameter and every parameter without default is given; else TypeError
Binds(keywords, parameters, required) ==
    keywords \subseteq parameters /\ required \subseteq keywords

\* routes.py lines 35-43: the row built from the form
Submission(form, is_eligible) ==
    [name |-> form.name, email |-> form.email, mobile |-> form.mobile,
     pincode |-> form.zipcode, age |-> form.age,
     health_info |-> form.health_info, is_eligible |-> is_eligible]

\* what the evaluator gives for the form's values (its pincode parameter
\* taking the form's zipcode)
FormOutcome(form) ==
    check_clinical_trial_eligibility(form.age, form.zipcode,
        Str(form.health_info), Str(form.mobile), NoChecks)

FormNames == { << "J" >>, << "J", "o", "h", "n", " ", "D", "o", "e" >> }
FormEmails == { << "j", "o", "h", "n", "@", "e", "x", "a", "m", "p", "l", "e", ".",
                   "c", "o", "m" >>, << "j", "o", "h", "n", ".", "e", "x", "a", "m", "p",
                                 "l", "e", ".", "c", "o", "m" >> }
FormMobiles == { << "9", "8", "7", "6", "5", "4", "3", "2", "1", "0" >>, << "9", "8", "7", "6", "5" >> }
FormZipcodes == { << "1", "2", "3", "4", "5" >>, << "5", "6", "0", "0", "0", "1" >>, << "1", "2", "3", "4" >>, << "9", "0", "2", "1", "0", "\n" >> }
FormAges == { 0, FormAgeMin - 1, FormAgeMin, MinimumAge, 45, MaximumAge + 1,
              FormAgeMax, FormAgeMax + 1 }
FormHealths ==
    { << "G", "o", "o", "d" >>, << "N", "o", " ", "m", "a", "j", "o", "r", " ", "h", "e", "a", "l",
                   "t", "h", " ", "i", "s", "s", "u", "e", "s", ".", " ", "R", "e",
                   "g", "u", "l", "a", "r", " ", "e", "x", "e", "r", "c", "i", "s",
                   "e", "." >>,
      << "A", "c", "t", "i", "v", "e", " ", "c", "a", "n", "c", "e", "r", " ", "t",
         "r", "e", "a", "t", "m", "e", "n", "t" >> }

Forms ==
    { [posted |-> TRUE, name |-> n, email |-> e, mobile |-> m, zipcode |-> z,
       age |-> a, health_info |-> h] :
         n \in FormNames, e \in FormEmails, m \in FormMobiles,
         z \in FormZipcodes, a \in FormAges, h \in FormHealths }

Reply(kind, message_type, is_eligible) ==
    [kind |-> kind, message_type |-> message_type, is_eligible |-> is_eligible]

\* routes.py lines 17-60: POST /interest.  A form that fails validation is
\* rendered again (line 60).  The evaluator call of lines 24-29 is outside
\* the try of line 45: a TypeError of the call, or an exception inside the
\* evaluator, leaves the view ("raised") before any row is built.  The commit
\* may fail; the handler then rolls back and renders the form.
PostInterestForm ==
    /\ ~request.posted /\ api_request.kind = "none"
    /\ Len(submissions) < MaxRows
    /\ \E form \in Forms, commit_ok \in BOOLEAN :
          /\ request' = form
          /\ IF ~ValidInterestForm(form)
             THEN /\ reply' = Reply("form", "", FALSE)
                  /\ UNCHANGED submissions
             ELSE IF ~Binds(InterestFormKeywords, EvaluatorParameters,
                            EvaluatorRequired)
                     \/ FormOutcome(form).status = "raised"
             THEN /\ reply' = Reply("raised", "", FALSE)
                  /\ UNCHANGED submissions
             ELSE LET is_eligible == FormOutcome(form).is_eligible
                      flashed == get_eligibility_message(is_eligible,
                                     FormOutcome(form).reasons)
                  IN  IF commit_ok
                      THEN /\ submissions' = Append(submissions,
                                                Submission(form, is_eligible))
                           /\ reply' = Reply("redirect", flashed.message_type,
                                             is_eligible)
                      ELSE /\ reply' = Reply("form", "error", is_eligible)
                           /\ UNCHANGED submissions
    /\ UNCHANGED << api_request, api_reply, evars, fvars, mvars, lvars, avars >>

\* routes.py lines 523, 533-539: the fields the API requires and the keywords
\* it passes to the evaluator
required_fields == { "age", "zipcode", "health_info" }
ApiKeywords == { "age", "zipcode", "health_info", "mobile", "additional_checks" }

\* the bodies POSTed: none at all ("absent"), text that is no JSON
\* ("invalid"), or a JSON object with the keys of fields; a key left out of
\* fields is read by data.get as None
ApiRequests ==
    { [NoApiRequest EXCEPT !.kind = k] : k \in {"absent", "invalid"} }
    \cup { [kind |-> "object", fields |-> f, age |-> a, zipcode |-> z,
            health_info |-> h,
            mobile |-> IF "mobile" \in f THEN m ELSE None,
            additional_checks |-> IF "additional_checks" \in f THEN c ELSE NoChecks] :
              f \in SUBSET ApiKeywords, a \in {MinimumAge - 1, 45},
              z \in {<< "5", "6", "0", "0", "0", "1" >>, << "9", "0", "2", "1", "0" >>},
              h \in {None, Str(<< "G", "o", "o", "d" >>),
                     Str(<< "N", "o", " ", "m", "a", "j", "o", "r", " ", "h", "e",
                            "a", "l", "t", "h", " ", "i", "s", "s", "u", "e", "s",
                            ".", " ", "R", "e", "g", "u", "l", "a", "r", " ", "e",
                            "x", "e", "r", "c", "i", "s", "e", "." >>)},
              m \in {Str(<< "9", "8", "7", "6", "5", "4", "3", "2", "1", "0" >>), Str(<< "9", "8", "7", "6", "5" >>)},
              c \in {DiabetesTrial} }

\* what the evaluator gives for the values of the body (its pincode parameter
\* taking the body's zipcode)
ApiOutcome(data) ==
    check_clinical_trial_eligibility(data.age, data.zipcode, data.health_info,
        data.mobile, data.additional_checks)

\* lines 517-520, 527-530 and 551-556: the error answers
ApiError(status) == [NoApiReply EXCEPT !.status = status]

\* lines 542-549
ApiResult(checked) ==
    LET composed_message == get_eligibility_message(checked.is_eligible, checked.reasons)
    IN  [status |-> 200, evaluated |-> TRUE, is_eligible |-> checked.is_eligible,
         reasons |-> checked.reasons,
         message_type |-> composed_message.message_type,
         message |-> composed_message.message]

\* routes.py lines 492-556: POST /api/check_eligibility.  request.get_json()
\* raises for a body that is no JSON; for a request without JSON body it
\* returns None or raises, depending on the Flask release.  Every exception,
\* the TypeError of the evaluator call included, is caught on line 551.
ApiCheckEligibility ==
    /\ api_request.kind = "none" /\ ~request.posted
    /\ \E data \in ApiRequests :
          /\ api_request' = data
          /\ \/ /\ data.kind = "absent"
                /\ api_reply' \in {ApiError(400), ApiError(500)}
             \/ /\ data.kind = "invalid"
                /\ api_reply' = ApiError(500)
             \/ /\ data.kind = "object"
                /\ api_reply' =
                     IF data.fields = {} \/ ~(required_fields \subseteq data.fields)
                     THEN ApiError(400)
                     ELSE IF ~Binds(ApiKeywords, EvaluatorParameters, EvaluatorRequired)
                             \/ ApiOutcome(data).status = "raised"
                     THEN ApiError(500)
                     ELSE ApiResult(ApiOutcome(data))
    /\ UNCHANGED << request, reply, submissions, evars, fvars, mvars, lvars, avars >>

RouteNext == PostInterestForm \/ ApiCheckEligibility

RouteSpec == Init /\ [][RouteNext]_vars

---------------------------------------------------------------------------
(* Properties of the interest form                                         *)

\* C16: a posted form that passes InterestForm validation leads to a committed
\* UserSubmission row carrying the form's values, whose is_eligible is the
\* boolean the evaluator returned.
C16_ValidSubmissionSaved ==
    (request.posted /\ ValidInterestForm(request)) =>
        /\ reply.kind = "redirect"
        /\ submissions # << >>
        /\ submissions[Len(submissions)] =
              Submission(request, FormOutcome(request).is_eligible)

\* the body is a JSON object that holds every required field
WellFormed(data) == data.kind = "object" /\ required_fields \subseteq data.fields

\* C23: api_check_eligibility answers a request without JSON body, or with a
\* required field missing, with status 400 and is_eligible false, the
\* evaluator not being called; it answers is_eligible true only when the
\* evaluator ran and returned eligible; and a request with all required
\* fields, on which the evaluator does not fail, gets the evaluator's
\* is_eligible and reasons and the message and tier composed from them.
C23_ApiAnswersEvaluator ==
    api_request.kind # "none" =>
        /\ (api_request.kind = "absent" \/
            (api_request.kind = "object" /\ ~WellFormed(api_request))) =>
               api_reply = ApiError(400)
        /\ api_reply.is_eligible =>
               /\ api_reply.evaluated
               /\ ApiOutcome(api_request).is_eligible
        /\ api_reply.status \in {400, 500} => ~api_reply.is_eligible
        /\ (WellFormed(api_request) /\ ApiOutcome(api_request).status = "returned") =>
               api_reply = ApiResult(ApiOutcome(api_request))

\* C28: for every submission InterestForm accepts, the evaluator, given the
\* form's values, raises neither its postal-code format reason nor its phone
\* reason, and some accepted submission is reported eligible
C28_FormValidPassesFormatChecks ==
    (request.posted /\ ValidInterestForm(request)) =>
        /\ ~InList(PincodeFormatReason, FormOutcome(request).reasons)
        /\ ~InList(MobileReason, FormOutcome(request).reasons)
        /\ \E form \in Forms : ValidInterestForm(form) /\ FormOutcome(form).is_eligible

---------------------------------------------------------------------------
(* email_service.py: get_locality_from_zipcode                             *)

ZipMargin == 3       \* codes tried on either side of each end of a range

ZipLength == 5

\* the value of a decimal digit
DigitValue(c) == CHOOSE d \in 0..9 : DigitChars[d + 1] = c

RECURSIVE ParseInt(_)
\* int(s) for a string of ASCII digits
ParseInt(s) ==
    IF s = << >> THEN 0
    ELSE 10 * ParseInt(SubSeq(s, 1, Len(s) - 1)) + DigitValue(s[Len(s)])

\* str.isdigit for the ASCII strings of the inputs: not empty, digits only
IsDigit(s) == s # << >> /\ \A i \in 1..Len(s) : s[i] \in Digits

\* line 393
zipcode_int(zipcode) ==
    IF IsDigit(zipcode) /\ Len(zipcode) = ZipLength THEN ParseInt(zipcode) ELSE 0

Range(lo, hi, region, recommendation) ==
    [lo |-> lo, hi |-> hi, region |-> region, recommendation |-> recommendation]

\* lines 396-415: the ranges in the order the elif chain tests them
Ranges ==
    << Range(10000, 19999, "New York Metro",
             "Both trials available at nearby research centers"),
       Range(90000, 96199, "Los Angeles Metro",
             "Both trials available at UCLA and nearby centers"),
       Range(60600, 60699, "Chicago Metro",
             "Trials available at Northwestern and University of Chicago"),
       Range(77000, 77599, "Houston Metro",
             "MD Anderson Cancer Center - recommended for both trials"),
       Range(85000, 85399, "Phoenix Metro",
             "Both trials available at Mayo Clinic Arizona"),
       Range(19100, 19199, "Philadelphia Metro",
             "University of Pennsylvania - excellent for both trials"),
       Range(94100, 94199, "San Francisco Metro",
             "UCSF - PRIMARY SITE for both LOCUS and ATHENA trials"),
       Range(98100, 98199, "Seattle Metro",
             "University of Washington Medical Center"),
       Range(2100, 2199, "Boston Metro",
             "Dana-Farber Cancer Institute and Harvard Medical"),
       Range(80200, 80299, "Denver Metro",
             "University of Colorado Cancer Center") >>

\* lines 416-417
CatchAll ==
    Range(0, 0, "your area",
          "Clinical trials may be available at regional medical centers")

InRange(n, range) == range.lo <= n /\ n <= range.hi

\* lines 391-417: the first range of the chain that holds the number, or the
\* catch-all
get_locality_from_zipcode(zipcode) ==
    LET n == zipcode_int(zipcode)
        hits == { i \in 1..Len(Ranges) : InRange(n, Ranges[i]) }
    IN  IF hits = {} THEN CatchAll
        ELSE Ranges[CHOOSE i \in hits : \A j \in hits : i <= j]

\* n written with the five digits of a ZIP code
ZipOf(n) ==
    LET s == NatToStr(n)
    IN  [i \in 1..(ZipLength - Len(s)) |-> "0"] \o s

\* ZIP codes about both ends of every range, and strings that are no ZIP code
Zipcodes ==
    { ZipOf(end + d) :
        end \in { Ranges[i].lo : i \in 1..Len(Ranges) }
                  \cup { Ranges[i].hi : i \in 1..Len(Ranges) },
        d \in (0 - ZipMargin)..ZipMargin }
    \cup { << >>, << "1", "2", "3", "4" >>, << "1", "2", "3", "4", "5", "6" >>, << "9", "0", "2", "1", "a" >>, << "9", "0", "2", "1", "0", "\n" >>, << "0", "0", "0", "0", "0" >> }

\* a call of get_locality_from_zipcode
Locate ==
    /\ ~located.called
    /\ \E zipcode \in Zipcodes :
          LET found == get_locality_from_zipcode(zipcode)
          IN  located' = [called |-> TRUE, zipcode |-> zipcode,
                          region |-> found.region,
                          recommendation |-> found.recommendation]
    /\ UNCHANGED << evars, fvars, mvars, rvars, avars >>

LocalityNext == Locate

LocalitySpec == Init /\ [][LocalityNext]_vars

\* C17: the ranges of get_locality_from_zipcode do not overlap: a code inside
\* a listed range gets the region and recommendation of that range, and every
\* other input, a string that is not exactly five digits included, gets the
\* catch-all pair.
C17_OwnRangePair ==
    located.called =>
        LET n == zipcode_int(located.zipcode)
        IN  /\ \A i \in 1..Len(Ranges) :
                  InRange(n, Ranges[i]) =>
                      /\ located.region = Ranges[i].region
                      /\ located.recommendation = Ranges[i].recommendation
            /\ (\A i \in 1..Len(Ranges) : ~InRange(n, Ranges[i])) =>
                  /\ located.region = CatchAll.region
                  /\ located.recommendation = CatchAll.recommendation

---------------------------------------------------------------------------
(* email_service.py: a whole batch as a function, and send_bulk_emails;    *)
(* routes.py: the admin session, the dashboard and send_emails             *)

MaxSelected == 2     \* rows one send_emails request selects

SendOutcomes == { "sent", "refused", "disconnected" }

\* lines 58-109: what comes of recipient k when send_message, called on an
\* open session, would end as outcomes[k]: a missing template variable is
\* found before the send; once a send has broken the session every later
\* send fails
AttemptOutcome(recipient_list, global_keys, outcomes, k) ==
    IF FormatRaisesKeyError(global_keys, recipient_list[k]) THEN "template"
    ELSE IF \E j \in 1..(k - 1) :
               /\ ~FormatRaisesKeyError(global_keys, recipient_list[j])
               /\ outcomes[j] = "disconnected"
    THEN "closed"
    ELSE outcomes[k]

\* lines 27-132: send_personalized_emails from call to return, as a function
\* of what the environment does: credentials set or not, the session opened
\* or not, and outcomes.  A failing quit adds nothing, every email being
\* recorded by then.
send_personalized_emails(recipient_list, global_keys, has_credentials, connected, outcomes) ==
    LET result_list ==
            IF ~has_credentials THEN CredentialResults(recipient_list)
            ELSE IF ~connected THEN MarkFailed(recipient_list, << >>)
            ELSE [k \in 1..Len(recipient_list) |->
                    LET what == AttemptOutcome(recipient_list, global_keys, outcomes, k)
                    IN  IF what = "sent"
                        THEN Result(recipient_list[k].email, "success", SentMessage)
                        ELSE Result(recipient_list[k].email, "error",
                                    IF what = "template" THEN TemplateMessage
                                    ELSE SendMessage)]
        successes == { k \in 1..Len(result_list) : result_list[k].status = "success" }
    IN  [success_count |-> Cardinality(successes),
         error_count |-> Len(result_list) - Cardinality(successes),
         results |-> result_list]

\* a row of UserSubmission, as far as send_emails reads and writes it
Row(id, email, pincode, email_sent) ==
    [id |-> id, email |-> email, pincode |-> pincode, email_sent |-> email_sent]

\* email_service.py lines 367-374: the recipient built from a row; its keys
\* cover the placeholders of get_clinical_trial_template
BulkRecipient(row) ==
    [email |-> row.email,
     keys |-> {"email", "name", "pincode", "locality", "trial_recommendation", "age"}]

\* email_service.py line 387: the emails of the results with status 'success'
success_emails(result_list) ==
    { result_list[k].email :
        k \in { i \in 1..Len(result_list) : result_list[i].status = "success" } }

\* routes.py lines 475-477: the flag a row has after the update loop
MarkSent(row, sent_to) ==
    IF row.email \in sent_to THEN [row EXCEPT !.email_sent = TRUE] ELSE row

\* the rows a query may return: two share an address
Rows ==
    { Row(1, "john@example.com", << "9", "0", "2", "1", "0" >>, FALSE),
      Row(2, "john@example.com", << "1", "9", "1", "0", "4" >>, FALSE),
      Row(3, "jane@example.com", << "5", "6", "0", "0", "0", "1" >>, TRUE) }

\* lists of rows with distinct ids
Selections ==
    { q \in SeqsUpTo(Rows, MaxSelected) :
        \A i, j \in 1..Len(q) : q[i].id = q[j].id => i = j }

\* routes.py lines 382-383: the defaults of the configured credentials
admin_username == "admin"
admin_password == "admin123"

AdminRequest(route, username, password, posted) ==
    [route |-> route, username |-> username, password |-> password,
     posted |-> posted]

\* routes.py line 367: the test of the decorator admin_required
admin_required_Open(logged_in) == TRUE

admin_required(logged_in) == logged_in

\* routes.py lines 372-392: /admin/login.  A GET, or a POST whose form fails
\* DataRequired, renders the page; a POST with the configured credentials
\* sets the flag.
AdminLogin ==
    /\ \E username \in {"", "admin", "root"}, password \in {"", "admin123", "guess"},
          posted \in BOOLEAN :
          /\ admin_request' = AdminRequest("login", username, password, posted)
          /\ IF posted /\ username # "" /\ password # ""
                /\ username = admin_username /\ password = admin_password
             THEN /\ admin_logged_in' = TRUE
                  /\ admin_reply' = "redirect_dashboard"
             ELSE /\ admin_reply' = "login_page"
                  /\ UNCHANGED admin_logged_in
    /\ UNCHANGED << selected_submissions, bulk, evars, fvars, mvars, rvars, lvars >>

\* routes.py lines 394-399: /admin/logout
AdminLogout ==
    /\ admin_request' = AdminRequest("logout", "", "", FALSE)
    /\ admin_logged_in' = FALSE
    /\ admin_reply' = "redirect_login"
    /\ UNCHANGED << selected_submissions, bulk, evars, fvars, mvars, rvars, lvars >>

\* routes.py lines 363-370 and 401-452: /admin behind admin_required.  The
\* view reads UserSubmission.therapy_type (line 434), which the class of
\* models.py does not define: it raises there, and renders where the class
\* has the column.
AdminDashboard ==
    /\ admin_request' = AdminRequest("dashboard", "", "", FALSE)
    /\ IF ~admin_required(admin_logged_in)
       THEN admin_reply' = "redirect_login"
       ELSE admin_reply' \in {"dashboard", "raised"}
    /\ UNCHANGED << admin_logged_in, selected_submissions, bulk, evars, fvars,
                    mvars, rvars, lvars >>

\* routes.py lines 454-490 with send_bulk_emails (email_service.py lines
\* 350-389): /admin/send_emails behind admin_required.  No id selected: a
\* warning and the redirect.  Else the rows are queried, one message per row
\* is sent, and every row whose email is among the emails sent to has
\* email_sent set.
SendEmails ==
    /\ admin_request' = AdminRequest("send_emails", "", "", TRUE)
    /\ IF ~admin_required(admin_logged_in)
       THEN /\ admin_reply' = "redirect_login"
            /\ UNCHANGED << selected_submissions, bulk >>
       ELSE /\ admin_reply' = "redirect_dashboard"
            /\ \E rows \in Selections, has_credentials \in BOOLEAN,
                  connected \in BOOLEAN :
                  \E outcomes \in [1..Len(rows) -> SendOutcomes] :
                     IF rows = << >>
                     THEN UNCHANGED << selected_submissions, bulk >>
                     ELSE LET recipient_list == [k \in 1..Len(rows) |-> BulkRecipient(rows[k])]
                              result == send_personalized_emails(recipient_list, {},
                                            has_credentials, connected, outcomes)
                              sent_to == success_emails(result.results)
                          IN  /\ bulk' = [queried |-> rows,
                                          statuses |-> [k \in 1..Len(result.results) |->
                                                          result.results[k].status]]
                              /\ selected_submissions' =
                                    [k \in 1..Len(rows) |-> MarkSent(rows[k], sent_to)]
    /\ UNCHANGED << admin_logged_in, evars, fvars, mvars, rvars, lvars >>

AdminNext == AdminLogin \/ AdminLogout \/ AdminDashboard \/ SendEmails

AdminSpec == Init /\ [][AdminNext]_vars

\* the status of the message built for the k-th selected row; where the
\* connection failed the results carry one entry per address, all 'error'
OwnStatus(k) ==
    IF Len(bulk.statuses) = Len(bulk.queried) THEN bulk.statuses[k] ELSE "error"

\* C25: after send_emails, email_sent has become True on a selected row only
\* if the message built for that very row was sent, and a row whose own send
\* failed keeps the email_sent it had, also when another selected row with
\* the same address succeeded
C25_OwnSendSetsFlag ==
    \A k \in 1..Len(selected_submissions) :
        /\ (selected_submissions[k].email_sent /\ ~bulk.queried[k].email_sent)
              => OwnStatus(k) = "success"
        /\ OwnStatus(k) # "success"
              => selected_submissions[k].email_sent = bulk.queried[k].email_sent

\* the request of the step is a POST of the configured credentials to the
\* login route
GoodLogin ==
    /\ admin_request'.route = "login"
    /\ admin_request'.posted
    /\ admin_request'.username = admin_username
    /\ admin_request'.password = admin_password

Guarded == { "dashboard", "send_emails" }

\* C26: over any sequence of login, logout, dashboard and send_emails
\* requests the logged-in flag is set only by a login with the configured
\* credentials and cleared by a logout; the dashboard is rendered, emails
\* are sent and rows are modified only by a request made while the flag is
\* set; and a request to one of the two guarded routes while it is not set
\* is redirected to the login page with nothing sent and no row modified
C26_OnlyWhileLoggedIn ==
    [][ /\ (admin_logged_in' /\ ~admin_logged_in) => GoodLogin
        /\ (admin_request'.route = "login" /\ ~GoodLogin)
              => admin_logged_in' = admin_logged_in
        /\ admin_request'.route = "logout" => ~admin_logged_in'
        /\ (admin_request'.route \in Guarded /\ ~admin_logged_in)
              => /\ admin_reply' = "redirect_login"
                 /\ UNCHANGED << selected_submissions, bulk, admin_logged_in >>
        /\ admin_reply' = "dashboard" => admin_logged_in
        /\ (bulk' # bulk \/ selected_submissions' # selected_submissions)
              => admin_logged_in /\ admin_request'.route = "send_emails"
      ]_vars

\* a batch was sent while logged in, and after the logout a further
\* send_emails request is redirected
C26_Witness ==
    /\ ~admin_logged_in
    /\ admin_request.route = "send_emails"
    /\ admin_reply = "redirect_login"
    /\ \E k \in 1..Len(bulk.statuses) : bulk.statuses[k] = "success"

---------------------------------------------------------------------------
(* sample_data.py and models.py init_sample_data: the sample users         *)

MaxLoads == 2        \* calls of init_sample_data

\* models.py lines 5-15: a row of UserSubmission built from keyword arguments
UserSubmission(name, email, mobile, pincode, age, health_info, is_eligible) ==
    [name |-> name, email |-> email, mobile |-> mobile, pincode |-> pincode,
     age |-> age, health_info |-> health_info, is_eligible |-> is_eligible]

\* sample_data.py lines 9-193
SAMPLE_USERS ==
    <<
      UserSubmission(<< "R", "a", "j", "e", "s", "h", " ", "K", "u", "m", "a", "r" >>, << "r", "a", "j", "e", "s", "h", ".", "k", "u", "m",
                                 "a", "r", "@", "g", "m", "a", "i", "l", ".", "c",
                                 "o", "m" >>,
         << "9", "8", "4", "5", "1", "2", "3", "4", "5", "6" >>, << "5", "6", "0", "0", "3", "4" >>, 42,
         << "T", "y", "p", "e", " ", "2", " ", "d", "i", "a", "b", "e", "t", "e", "s",
            " ", "m", "a", "n", "a", "g", "e", "d", " ", "w", "i", "t", "h", " ", "m",
            "e", "t", "f", "o", "r", "m", "i", "n", ".", " ", "H", "b", "A", "1", "c",
            " ", "l", "e", "v", "e", "l", "s", " ", "s", "t", "a", "b", "l", "e", ".",
            " ", "R", "e", "g", "u", "l", "a", "r", " ", "e", "x", "e", "r", "c", "i",
            "s", "e", " ", "a", "n", "d", " ", "d", "i", "e", "t", " ", "c", "o", "n",
            "t", "r", "o", "l", "." >>,
         TRUE),
      UserSubmission(<< "P", "r", "i", "y", "a", " ", "S", "h", "a", "r", "m", "a" >>, << "p", "r", "i", "y", "a", ".", "s", "h", "a", "r",
                                 "m", "a", "@", "o", "u", "t", "l", "o", "o", "k",
                                 ".", "c", "o", "m" >>,
         << "9", "8", "7", "6", "5", "4", "3", "2", "1", "0" >>, << "1", "1", "0", "0", "2", "5" >>, 34,
         << "H", "y", "p", "e", "r", "t", "e", "n", "s", "i", "o", "n", " ", "c", "o",
            "n", "t", "r", "o", "l", "l", "e", "d", " ", "w", "i", "t", "h", " ", "A",
            "C", "E", " ", "i", "n", "h", "i", "b", "i", "t", "o", "r", "s", ".", " ",
            "N", "o", " ", "o", "t", "h", "e", "r", " ", "s", "i", "g", "n", "i", "f",
            "i", "c", "a", "n", "t", " ", "m", "e", "d", "i", "c", "a", "l", " ", "h",
            "i", "s", "t", "o", "r", "y", "." >>,
         TRUE),
      UserSubmission(<< "A", "r", "j", "u", "n", " ", "R", "e", "d", "d", "y" >>, << "a", "r", "j", "u", "n", ".", "r", "e", "d", "d",
                                 "y", "@", "y", "a", "h", "o", "o", ".", "c", "o",
                                 "m" >>,
         << "9", "9", "8", "8", "7", "7", "6", "6", "5", "5" >>, << "5", "0", "0", "0", "3", "2" >>, 28,
         << "G", "e", "n", "e", "r", "a", "l", "l", "y", " ", "h", "e", "a", "l", "t",
            "h", "y", ".", " ", "O", "c", "c", "a", "s", "i", "o", "n", "a", "l", " ",
            "h", "e", "a", "d", "a", "c", "h", "e", "s", ".", " ", "F", "a", "m", "i",
            "l", "y", " ", "h", "i", "s", "t", "o", "r", "y", " ", "o", "f", " ", "c",
            "a", "r", "d", "i", "o", "v", "a", "s", "c", "u", "l", "a", "r", " ", "d",
            "i", "s", "e", "a", "s", "e", "." >>,
         TRUE),
      UserSubmission(<< "M", "e", "e", "r", "a", " ", "I", "y", "e", "r" >>, << "m", "e", "e", "r", "a", ".", "i", "y", "e", "r",
                                 "@", "r", "e", "d", "i", "f", "f", "m", "a", "i",
                                 "l", ".", "c", "o", "m" >>,
         << "9", "1", "2", "3", "4", "5", "6", "7", "8", "9" >>, << "6", "0", "0", "0", "2", "8" >>, 51,
         << "R", "h", "e", "u", "m", "a", "t", "o", "i", "d", " ", "a", "r", "t", "h",
            "r", "i", "t", "i", "s", " ", "t", "r", "e", "a", "t", "e", "d", " ", "w",
            "i", "t", "h", " ", "m", "e", "t", "h", "o", "t", "r", "e", "x", "a", "t",
            "e", ".", " ", "J", "o", "i", "n", "t", " ", "p", "a", "i", "n", " ", "w",
            "e", "l", "l", " ", "c", "o", "n", "t", "r", "o", "l", "l", "e", "d", "." >>,
         TRUE),
      UserSubmission(<< "V", "i", "k", "r", "a", "m", " ", "S", "i", "n", "g", "h" >>, << "v", "i", "k", "r", "a", "m", ".", "s", "i", "n",
                                 "g", "h", "@", "h", "o", "t", "m", "a", "i", "l",
                                 ".", "c", "o", "m" >>,
         << "9", "7", "6", "5", "4", "3", "2", "1", "0", "8" >>, << "4", "0", "0", "0", "2", "1" >>, 39,
         << "A", "s", "t", "h", "m", "a", " ", "s", "i", "n", "c", "e", " ", "c", "h",
            "i", "l", "d", "h", "o", "o", "d", ".", " ", "U", "s", "e", "s", " ", "i",
            "n", "h", "a", "l", "e", "d", " ", "c", "o", "r", "t", "i", "c", "o", "s",
            "t", "e", "r", "o", "i", "d", "s", ".", " ", "N", "o", " ", "r", "e", "c",
            "e", "n", "t", " ", "e", "x", "a", "c", "e", "r", "b", "a", "t", "i", "o",
            "n", "s", "." >>,
         TRUE),
      UserSubmission(<< "A", "n", "j", "a", "l", "i", " ", "G", "u", "p", "t", "a" >>, << "a", "n", "j", "a", "l", "i", ".", "g", "u", "p",
                                 "t", "a", "@", "g", "m", "a", "i", "l", ".", "c",
                                 "o", "m" >>,
         << "9", "6", "5", "4", "3", "2", "1", "0", "7", "8" >>, << "7", "0", "0", "0", "1", "9" >>, 46,
         << "H", "y", "p", "o", "t", "h", "y", "r", "o", "i", "d", "i", "s", "m", " ",
            "o", "n", " ", "l", "e", "v", "o", "t", "h", "y", "r", "o", "x", "i", "n",
            "e", " ", "r", "e", "p", "l", "a", "c", "e", "m", "e", "n", "t", ".", " ",
            "T", "h", "y", "r", "o", "i", "d", " ", "l", "e", "v", "e", "l", "s", " ",
            "w", "i", "t", "h", "i", "n", " ", "n", "o", "r", "m", "a", "l", " ", "r",
            "a", "n", "g", "e", "." >>,
         TRUE),
      UserSubmission(<< "S", "a", "n", "j", "a", "y", " ", "P", "a", "t", "e", "l" >>, << "s", "a", "n", "j", "a", "y", ".", "p", "a", "t",
                                 "e", "l", "@", "y", "a", "h", "o", "o", ".", "i",
                                 "n" >>,
         << "9", "5", "4", "3", "2", "1", "0", "9", "8", "7" >>, << "3", "8", "0", "0", "1", "5" >>, 33,
         << "N", "o", " ", "m", "a", "j", "o", "r", " ", "m", "e", "d", "i", "c", "a",
            "l", " ", "c", "o", "n", "d", "i", "t", "i", "o", "n", "s", ".", " ", "O",
            "c", "c", "a", "s", "i", "o", "n", "a", "l", " ", "b", "a", "c", "k", " ",
            "p", "a", "i", "n", " ", "f", "r", "o", "m", " ", "d", "e", "s", "k", " ",
            "j", "o", "b", ".", " ", "T", "a", "k", "e", "s", " ", "v", "i", "t", "a",
            "m", "i", "n", " ", "D", " ", "s", "u", "p", "p", "l", "e", "m", "e", "n",
            "t", "s", "." >>,
         TRUE),
      UserSubmission(<< "K", "a", "v", "y", "a", " ", "N", "a", "i", "r" >>, << "k", "a", "v", "y", "a", ".", "n", "a", "i", "r",
                                 "@", "g", "m", "a", "i", "l", ".", "c", "o", "m" >>,
         << "9", "4", "3", "2", "1", "0", "9", "8", "7", "6" >>, << "6", "8", "2", "0", "2", "0" >>, 29,
         << "P", "C", "O", "S", " ", "d", "i", "a", "g", "n", "o", "s", "e", "d", " ",
            "3", " ", "y", "e", "a", "r", "s", " ", "a", "g", "o", ".", " ", "M", "a",
            "n", "a", "g", "e", "d", " ", "w", "i", "t", "h", " ", "l", "i", "f", "e",
            "s", "t", "y", "l", "e", " ", "c", "h", "a", "n", "g", "e", "s", " ", "a",
            "n", "d", " ", "m", "e", "t", "f", "o", "r", "m", "i", "n", "." >>,
         TRUE),
      UserSubmission(<< "R", "a", "h", "u", "l", " ", "J", "o", "s", "h", "i" >>, << "r", "a", "h", "u", "l", ".", "j", "o", "s", "h",
                                 "i", "@", "o", "u", "t", "l", "o", "o", "k", ".",
                                 "c", "o", "m" >>,
         << "9", "3", "2", "1", "0", "9", "8", "7", "6", "5" >>, << "4", "1", "1", "0", "1", "4" >>, 37,
         << "H", "i", "g", "h", " ", "c", "h", "o", "l", "e", "s", "t", "e", "r", "o",
            "l", " ", "m", "a", "n", "a", "g", "e", "d", " ", "w", "i", "t", "h", " ",
            "a", "t", "o", "r", "v", "a", "s", "t", "a", "t", "i", "n", ".", " ", "R",
            "e", "g", "u", "l", "a", "r", " ", "c", "a", "r", "d", "i", "o", "v", "a",
            "s", "c", "u", "l", "a", "r", " ", "c", "h", "e", "c", "k", "u", "p", "s",
            "." >>,
         TRUE),
      UserSubmission(<< "S", "n", "e", "h", "a", " ", "D", "e", "s", "a", "i" >>, << "s", "n", "e", "h", "a", ".", "d", "e", "s", "a",
                                 "i", "@", "r", "e", "d", "i", "f", "f", "m", "a",
                                 "i", "l", ".", "c", "o", "m" >>,
         << "9", "2", "1", "0", "9", "8", "7", "6", "5", "4" >>, << "3", "0", "2", "0", "1", "7" >>, 44,
         << "M", "i", "g", "r", "a", "i", "n", "e", " ", "e", "p", "i", "s", "o", "d",
            "e", "s", " ", "2", "-", "3", " ", "t", "i", "m", "e", "s", " ", "p", "e",
            "r", " ", "m", "o", "n", "t", "h", ".", " ", "T", "a", "k", "e", "s", " ",
            "s", "u", "m", "a", "t", "r", "i", "p", "t", "a", "n", " ", "a", "s", " ",
            "n", "e", "e", "d", "e", "d", "." >>,
         TRUE),
      UserSubmission(<< "A", "r", "u", "n", " ", "K", "r", "i", "s", "h", "n", "a",
                        "n" >>, << "a", "r", "u", "n", ".", "k", "r", "i", "s", "h",
                                 "n", "a", "n", "@", "g", "m", "a", "i", "l", ".",
                                 "c", "o", "m" >>,
         << "9", "1", "0", "9", "8", "7", "6", "5", "4", "3" >>, << "5", "6", "0", "0", "0", "1" >>, 55,
         << "S", "l", "e", "e", "p", " ", "a", "p", "n", "e", "a", " ", "u", "s", "i",
            "n", "g", " ", "C", "P", "A", "P", " ", "m", "a", "c", "h", "i", "n", "e",
            ".", " ", "B", "l", "o", "o", "d", " ", "p", "r", "e", "s", "s", "u", "r",
            "e", " ", "c", "o", "n", "t", "r", "o", "l", "l", "e", "d", " ", "w", "i",
            "t", "h", " ", "m", "e", "d", "i", "c", "a", "t", "i", "o", "n", "." >>,
         TRUE),
      UserSubmission(<< "D", "i", "v", "y", "a", " ", "A", "g", "a", "r", "w", "a",
                        "l" >>, << "d", "i", "v", "y", "a", ".", "a", "g", "a", "r",
                                 "w", "a", "l", "@", "y", "a", "h", "o", "o", ".",
                                 "c", "o", "m" >>,
         << "9", "0", "9", "8", "7", "6", "5", "4", "3", "2" >>, << "2", "0", "1", "3", "0", "1" >>, 31,
         << "I", "r", "r", "i", "t", "a", "b", "l", "e", " ", "b", "o", "w", "e", "l",
            " ", "s", "y", "n", "d", "r", "o", "m", "e", " ", "m", "a", "n", "a", "g",
            "e", "d", " ", "w", "i", "t", "h", " ", "d", "i", "e", "t", " ", "m", "o",
            "d", "i", "f", "i", "c", "a", "t", "i", "o", "n", "s", ".", " ", "N", "o",
            " ", "o", "t", "h", "e", "r", " ", "c", "o", "n", "d", "i", "t", "i", "o",
            "n", "s", "." >>,
         TRUE),
      UserSubmission(<< "K", "i", "r", "a", "n", " ", "K", "u", "m", "a", "r" >>, << "k", "i", "r", "a", "n", ".", "k", "u", "m", "a",
                                 "r", "@", "h", "o", "t", "m", "a", "i", "l", ".",
                                 "c", "o", "m" >>,
         << "8", "9", "8", "7", "6", "5", "4", "3", "2", "1" >>, << "2", "2", "6", "0", "1", "0" >>, 48,
         << "O", "s", "t", "e", "o", "a", "r", "t", "h", "r", "i", "t", "i", "s", " ",
            "i", "n", " ", "k", "n", "e", "e", " ", "j", "o", "i", "n", "t", "s", ".",
            " ", "T", "a", "k", "e", "s", " ", "N", "S", "A", "I", "D", "s", " ", "o",
            "c", "c", "a", "s", "i", "o", "n", "a", "l", "l", "y", " ", "f", "o", "r",
            " ", "p", "a", "i", "n", " ", "r", "e", "l", "i", "e", "f", "." >>,
         TRUE),
      UserSubmission(<< "R", "a", "v", "i", " ", "G", "u", "p", "t", "a" >>, << "r", "a", "v", "i", ".", "g", "u", "p", "t", "a",
                                 "@", "g", "m", "a", "i", "l", ".", "c", "o", "m" >>,
         << "8", "8", "7", "6", "5", "4", "3", "2", "1", "0" >>, << "9", "9", "9", "9", "9", "9" >>, 35,
         << "G", "e", "n", "e", "r", "a", "l", "l", "y", " ", "g", "o", "o", "d", " ",
            "h", "e", "a", "l", "t", "h", ".", " ", "N", "o", " ", "c", "h", "r", "o",
            "n", "i", "c", " ", "c", "o", "n", "d", "i", "t", "i", "o", "n", "s", ".",
            " ", "R", "e", "g", "u", "l", "a", "r", " ", "e", "x", "e", "r", "c", "i",
            "s", "e", " ", "r", "o", "u", "t", "i", "n", "e", "." >>,
         FALSE),
      UserSubmission(<< "N", "e", "h", "a", " ", "K", "a", "p", "o", "o", "r" >>, << "n", "e", "h", "a", ".", "k", "a", "p", "o", "o",
                                 "r", "@", "o", "u", "t", "l", "o", "o", "k", ".",
                                 "c", "o", "m" >>,
         << "8", "7", "6", "5", "4", "3", "2", "1", "0", "9" >>, << "1", "1", "0", "0", "0", "1" >>, 17,
         << "H", "e", "a", "l", "t", "h", "y", " ", "c", "o", "l", "l", "e", "g", "e",
            " ", "s", "t", "u", "d", "e", "n", "t", ".", " ", "N", "o", " ", "m", "e",
            "d", "i", "c", "a", "l", " ", "i", "s", "s", "u", "e", "s", ".", " ", "A",
            "c", "t", "i", "v", "e", " ", "l", "i", "f", "e", "s", "t", "y", "l", "e",
            "." >>,
         FALSE),
      UserSubmission(<< "S", "u", "r", "e", "s", "h", " ", "M", "a", "l", "h", "o",
                        "t", "r", "a" >>, << "s", "u", "r", "e", "s", "h", ".", "m", "a", "l",
                                 "h", "o", "t", "r", "a", "@", "y", "a", "h", "o",
                                 "o", ".", "c", "o", "m" >>,
         << "8", "6", "5", "4", "3", "2", "1", "0", "9", "8" >>, << "4", "0", "0", "0", "0", "1" >>, 52,
         << "C", "u", "r", "r", "e", "n", "t", "l", "y", " ", "u", "n", "d", "e", "r",
            "g", "o", "i", "n", "g", " ", "c", "h", "e", "m", "o", "t", "h", "e", "r",
            "a", "p", "y", " ", "f", "o", "r", " ", "c", "o", "l", "o", "n", " ", "c",
            "a", "n", "c", "e", "r", ".", " ", "S", "t", "a", "r", "t", "e", "d", " ",
            "t", "r", "e", "a", "t", "m", "e", "n", "t", " ", "2", " ", "m", "o", "n",
            "t", "h", "s", " ", "a", "g", "o", "." >>,
         FALSE),
      UserSubmission(<< "P", "o", "o", "j", "a", " ", "S", "h", "a", "r", "m", "a" >>, << "p", "o", "o", "j", "a", ".", "s", "h", "a", "r",
                                 "m", "a", "@", "r", "e", "d", "i", "f", "f", "m",
                                 "a", "i", "l", ".", "c", "o", "m" >>,
         << "8", "5", "4", "3", "2", "1", "0", "9", "8", "7" >>, << "5", "6", "0", "0", "0", "1" >>, 26,
         << "C", "u", "r", "r", "e", "n", "t", "l", "y", " ", "p", "r", "e", "g", "n",
            "a", "n", "t", ",", " ", "s", "e", "c", "o", "n", "d", " ", "t", "r", "i",
            "m", "e", "s", "t", "e", "r", ".", " ", "N", "o", " ", "c", "o", "m", "p",
            "l", "i", "c", "a", "t", "i", "o", "n", "s", " ", "s", "o", " ", "f", "a",
            "r", "." >>,
         FALSE),
      UserSubmission(<< "M", "a", "n", "i", "s", "h", " ", "A", "g", "a", "r", "w",
                        "a", "l" >>, << "m", "a", "n", "i", "s", "h", ".", "a", "g", "a",
                                 "r", "w", "a", "l", "@", "g", "m", "a", "i", "l",
                                 ".", "c", "o", "m" >>,
         << "8", "4", "3", "2", "1", "0", "9", "8", "7", "6" >>, << "8", "0", "0", "0", "2", "0" >>, 88,
         << "M", "u", "l", "t", "i", "p", "l", "e", " ", "c", "o", "m", "o", "r", "b",
            "i", "d", "i", "t", "i", "e", "s", " ", "i", "n", "c", "l", "u", "d", "i",
            "n", "g", " ", "d", "i", "a", "b", "e", "t", "e", "s", ",", " ", "h", "y",
            "p", "e", "r", "t", "e", "n", "s", "i", "o", "n", ",", " ", "a", "n", "d",
            " ", "h", "e", "a", "r", "t", " ", "d", "i", "s", "e", "a", "s", "e", "." >>,
         FALSE),
      UserSubmission(<< "S", "u", "n", "i", "t", "a", " ", "R", "e", "d", "d", "y" >>, << "s", "u", "n", "i", "t", "a", ".", "r", "e", "d",
                                 "d", "y", "@", "h", "o", "t", "m", "a", "i", "l",
                                 ".", "c", "o", "m" >>,
         << "8", "3", "2", "1", "0", "9", "8", "7", "6", "5" >>, << "5", "0", "0", "0", "0", "1" >>, 40,
         << "K", "i", "d", "n", "e", "y", " ", "f", "a", "i", "l", "u", "r", "e", " ",
            "o", "n", " ", "d", "i", "a", "l", "y", "s", "i", "s", " ", "t", "h", "r",
            "e", "e", " ", "t", "i", "m", "e", "s", " ", "p", "e", "r", " ", "w", "e",
            "e", "k", ".", " ", "A", "w", "a", "i", "t", "i", "n", "g", " ", "t", "r",
            "a", "n", "s", "p", "l", "a", "n", "t", "." >>,
         FALSE),
      UserSubmission(<< "D", "e", "e", "p", "a", "k", " ", "V", "e", "r", "m", "a" >>, << "d", "e", "e", "p", "a", "k", ".", "v", "e", "r",
                                 "m", "a", "@", "y", "a", "h", "o", "o", ".", "i",
                                 "n" >>,
         << "8", "2", "1", "0", "9", "8", "7", "6", "5", "4" >>, << "1", "2", "3", "4", "5", "6" >>, 32,
         << "N", "o", " ", "m", "a", "j", "o", "r", " ", "h", "e", "a", "l", "t", "h",
            " ", "i", "s", "s", "u", "e", "s", ".", " ", "O", "c", "c", "a", "s", "i",
            "o", "n", "a", "l", " ", "s", "e", "a", "s", "o", "n", "a", "l", " ", "a",
            "l", "l", "e", "r", "g", "i", "e", "s", " ", "m", "a", "n", "a", "g", "e",
            "d", " ", "w", "i", "t", "h", " ", "a", "n", "t", "i", "h", "i", "s", "t",
            "a", "m", "i", "n", "e", "s", "." >>,
         FALSE)
    >>

\* models.py lines 181-365: the list of init_sample_data, entry for entry the
\* list of sample_data.py
sample_users == SAMPLE_USERS

\* models.py lines 179-372: init_sample_data adds one row per entry and commits
InitSampleData ==
    /\ Len(submissions) < MaxLoads * Len(sample_users)
    /\ submissions' = submissions \o sample_users
    /\ UNCHANGED << request, reply, api_request, api_reply, evars, fvars, mvars,
                    lvars, avars >>

\* the evaluator called with the age, pincode, health_info and mobile of an
\* entry of SAMPLE_USERS or of a stored row
EvaluateSample ==
    /\ ~call.made
    /\ \E user \in { SAMPLE_USERS[k] : k \in 1..Len(SAMPLE_USERS) }
                   \cup { submissions[k] : k \in 1..Len(submissions) } :
          /\ call' = Args(user.age, user.pincode, Str(user.health_info),
                          Str(user.mobile), NoChecks)
          /\ outcome' = check_clinical_trial_eligibility(
                            user.age, user.pincode, Str(user.health_info),
                            Str(user.mobile), NoChecks)
    /\ UNCHANGED << composed, fvars, mvars, rvars, lvars, avars >>

SampleNext == InitSampleData \/ EvaluateSample \/ Compose

SampleSpec == Init /\ [][SampleNext]_vars

\* the call made is the evaluator's call for this entry
CalledFor(user) ==
    /\ call.made
    /\ call.age = user.age
    /\ call.pincode = user.pincode
    /\ call.health_info = Str(user.health_info)
    /\ call.mobile = Str(user.mobile)

\* C29: for every entry of SAMPLE_USERS, and every row init_sample_data has
\* stored, the evaluator called with the entry's age, pincode, health_info
\* and mobile returns the entry's is_eligible flag
C29_SampleFlagsAreEvaluatorResults ==
    /\ \A k \in 1..Len(SAMPLE_USERS) :
          CalledFor(SAMPLE_USERS[k]) =>
              /\ outcome.status = "returned"
              /\ outcome.is_eligible = SAMPLE_USERS[k].is_eligible
    /\ \A k \in 1..Len(submissions) :
          CalledFor(submissions[k]) =>
              /\ outcome.status = "returned"
              /\ outcome.is_eligible = submissions[k].is_eligible
=============================================================================
